---------------------------- MODULE Spec2Model ----------------------------
(***************************************************************************)
(* A model of the awspolicy evaluation engine: glob and constraint         *)
(* matching, ARN and Action value objects, condition operators, the        *)
(* condition set, the request context, statements and the policy reducer.  *)
(*                                                                         *)
(* Strings are sequences of one-character strings.  A Rust Result is the   *)
(* pair <<"Ok", v>> or <<"Err", e>>; an Option is <<"Some", v>> or         *)
(* <<"None">>.                                                             *)
(***************************************************************************)
EXTENDS Integers, Sequences, FiniteSets, TLC

VARIABLES
    policy,      \* the statements of the policy under evaluation
    context,     \* the request context: [global, resources]
    call,        \* the last check called: [fn, principal, action, resource]
    result,      \* what that check returned
    evaluated,   \* the indices of the statements that check evaluated, in order
    key_values,  \* the value map it handed to the condition set, if it built one
    json,        \* the JSON statement object last projected
    parsed,      \* what Statement::try_from returned for it
    cond_set,    \* a condition set matched on its own
    cond_values, \* the value map it is matched against
    cond_result, \* what ConditionSet::matches returned
    matcher,     \* a quantifier, nullable, operator or glob matched on its own
    m_values,    \* the context values it is given, None for an absent key
    m_targets,   \* the targets it is given
    m_result     \* what its matches returned

evalVars == <<policy, context, call, result, evaluated, key_values>>

projVars == <<json, parsed>>

condVars == <<cond_set, cond_values, cond_result>>

matchVars == <<matcher, m_values, m_targets, m_result>>

vars == <<evalVars, projVars, condVars, matchVars>>

Ok(v) == <<"Ok", v>>

Err(e) == <<"Err", e>>

IsOk(r) == r[1] = "Ok"

IsErr(r) == r[1] = "Err"

Some(v) == <<"Some", v>>

None == <<"None">>

IsSome(o) == o[1] = "Some"

(***************************************************************************)
(* Sequence helpers.                                                       *)
(***************************************************************************)
Range(s) == {s[i] : i \in 1..Len(s)}

Contains(s, c) == \E i \in 1..Len(s) : s[i] = c

\* The positions of character c in s, in increasing order.
RECURSIVE IndicesFrom(_, _, _)
IndicesFrom(s, c, i) ==
    IF i > Len(s) THEN <<>>
    ELSE IF s[i] = c THEN <<i>> \o IndicesFrom(s, c, i + 1)
    ELSE IndicesFrom(s, c, i + 1)

RECURSIVE SeqPermutations(_)
SeqPermutations(s) ==
    IF Len(s) = 0 THEN {<<>>}
    ELSE UNION {{<<s[i]>> \o p :
                   p \in SeqPermutations(SubSeq(s, 1, i - 1) \o SubSeq(s, i + 1, Len(s)))} :
                i \in 1..Len(s)}

(***************************************************************************)
(* The regex crate, as far as the matchers use it: a pattern is a sequence *)
(* of tokens, "^" and "$" anchor at the ends of the text, "." is any       *)
(* character but a line feed, ".*" any run of such characters.             *)
(***************************************************************************)
Bol == <<"^">>

Eol == <<"$">>

Dot == <<".">>

DotStar == <<".*">>

Lit(c) == <<"lit", c>>

\* regex::escape(s): the pattern that matches s literally.
escape(s) == [i \in 1..Len(s) |-> Lit(s[i])]

RECURSIVE MatchFrom(_, _, _)
MatchFrom(re, t, pos) ==
    IF Len(re) = 0 THEN TRUE
    ELSE LET tok == Head(re) IN
         CASE tok = Bol -> pos = 1 /\ MatchFrom(Tail(re), t, pos)
           [] tok = Eol -> pos = Len(t) + 1 /\ MatchFrom(Tail(re), t, pos)
           [] tok = Dot -> /\ pos <= Len(t)
                           /\ t[pos] # "\n"
                           /\ MatchFrom(Tail(re), t, pos + 1)
           [] tok = DotStar -> \/ MatchFrom(Tail(re), t, pos)
                               \/ /\ pos <= Len(t)
                                  /\ t[pos] # "\n"
                                  /\ MatchFrom(re, t, pos + 1)
           [] OTHER -> /\ pos <= Len(t)
                       /\ t[pos] = tok[2]
                       /\ MatchFrom(Tail(re), t, pos + 1)

\* Regex::is_match: the pattern matches somewhere in the text.
is_match(re, t) == \E pos \in 1..(Len(t) + 1) : MatchFrom(re, t, pos)

(***************************************************************************)
(* aws/glob.rs                                                             *)
(***************************************************************************)
RECURSIVE GlobTokens(_)
GlobTokens(glob) ==
    IF Len(glob) = 0 THEN <<>>
    ELSE (CASE Head(glob) = "?" -> <<Dot>>
            [] Head(glob) = "*" -> <<DotStar>>
            [] OTHER -> escape(<<Head(glob)>>)) \o GlobTokens(Tail(glob))

pattern_from_glob(glob) == <<Bol>> \o GlobTokens(glob) \o <<Eol>>

glob_matches(glob, target) ==
    IF ~(Contains(glob, "?") \/ Contains(glob, "*")) THEN target = glob
    ELSE is_match(pattern_from_glob(glob), target)

(***************************************************************************)
(* policy/constraint.rs: pattern_matches knows "*" only.                   *)
(***************************************************************************)
\* pattern.split('*'): the pieces between the stars, empty pieces kept.
RECURSIVE SplitStar(_, _)
SplitStar(s, acc) ==
    IF Len(s) = 0 THEN <<acc>>
    ELSE IF Head(s) = "*" THEN <<acc>> \o SplitStar(Tail(s), <<>>)
    ELSE SplitStar(Tail(s), Append(acc, Head(s)))

RECURSIVE JoinDotStar(_)
JoinDotStar(pieces) ==
    IF Len(pieces) = 0 THEN <<>>
    ELSE <<DotStar>> \o escape(Head(pieces)) \o JoinDotStar(Tail(pieces))

\* The pattern string pattern_matches builds from the pieces.
StarPattern(i) == <<Bol>> \o escape(Head(i)) \o JoinDotStar(Tail(i)) \o <<Eol>>

pattern_matches(pattern, target) ==
    IF ~Contains(pattern, "*") THEN pattern = target
    ELSE is_match(StarPattern(SplitStar(pattern, <<>>)), target)

(***************************************************************************)
(* iam.rs: Action, and aws/arn.rs: ARN.  Offsets are 1-based here.         *)
(***************************************************************************)
Action_try_from(value) ==
    LET seps == IndicesFrom(value, ":", 1)
    IN  IF Len(seps) = 0 THEN Err("InvalidFormat")
        ELSE Ok([value |-> value, separator |-> seps[1]])

Action_service(a) == SubSeq(a.value, 1, a.separator - 1)

Action_action(a) == SubSeq(a.value, a.separator + 1, Len(a.value))

starts_with(value, prefix) ==
    Len(value) >= Len(prefix) /\ SubSeq(value, 1, Len(prefix)) = prefix

ARN_from_str(value) ==
    IF ~starts_with(value, <<"a", "r", "n", ":">>) THEN Err("MissingPrefix")
    ELSE LET separators == IndicesFrom(value, ":", 1)
         IN  IF Len(separators) < 5 THEN Err("InvalidFormat")
             ELSE Ok([value |-> value, separators |-> separators])

\* The service read one colon too early, between colons 1 and 2.
ARN_service_shifted(arn) ==
    SubSeq(arn.value, arn.separators[1] + 1, arn.separators[2] - 1)

ARN_service(arn) == SubSeq(arn.value, arn.separators[2] + 1, arn.separators[3] - 1)

ARN_region(arn) == SubSeq(arn.value, arn.separators[3] + 1, arn.separators[4] - 1)

ARN_account(arn) == SubSeq(arn.value, arn.separators[4] + 1, arn.separators[5] - 1)

ARN_resource(arn) == SubSeq(arn.value, arn.separators[5] + 1, Len(arn.value))

ARN_raw(arn) == arn.value

\* PartialEq and Hash of ARN read the raw string only.
ARN_eq(a, b) == a.value = b.value

(***************************************************************************)
(* policy/constraint.rs: constraints are <<"Any">>, <<"AWSAny">> or        *)
(* <<"Pattern", p>>.                                                       *)
(***************************************************************************)
MatchAny == <<"Any">>

AWSAny == <<"AWSAny">>

Pattern(p) == <<"Pattern", p>>

ActionConstraint_matches(c, action) ==
    IF c = MatchAny THEN TRUE
    ELSE /\ pattern_matches(Action_service(c[2]), Action_service(action))
         /\ pattern_matches(Action_action(c[2]), Action_action(action))

ResourceConstraint_matches(c, resource) ==
    IF c = MatchAny THEN TRUE
    ELSE pattern_matches(ARN_raw(c[2]), ARN_raw(resource))

\* A principal is <<variant, payload>>: <<"AWS", arn>>, <<"Federated", s>>,
\* <<"Service", s>> or <<"CanonicalUser", s>>.
PrincipalText(p) == IF p[1] = "AWS" THEN ARN_raw(p[2]) ELSE p[2]

PrincipalConstraint_matches(c, principal) ==
    CASE c = MatchAny -> TRUE
      [] c = AWSAny -> principal[1] = "AWS"
      [] OTHER -> /\ c[2][1] = principal[1]
                  /\ glob_matches(PrincipalText(c[2]), PrincipalText(principal))

\* constraints.iter().any(|constraint| constraint.matches(subject))
AnyActionMatches(list, action) ==
    \E i \in 1..Len(list) : ActionConstraint_matches(list[i], action)

AnyResourceMatches(list, resource) ==
    \E i \in 1..Len(list) : ResourceConstraint_matches(list[i], resource)

AnyPrincipalMatches(list, principal) ==
    \E i \in 1..Len(list) : PrincipalConstraint_matches(list[i], principal)

(***************************************************************************)
(* policy/condition.rs: the typed comparators.  f64::from_str is modelled  *)
(* on unsigned decimal literals and "NaN"; a number is <<mantissa, number  *)
(* of fraction digits>>.                                                   *)
(***************************************************************************)
Digits == <<"0", "1", "2", "3", "4", "5", "6", "7", "8", "9">>

IsDigit(c) == \E d \in 1..Len(Digits) : Digits[d] = c

DigitValue(c) == (CHOOSE d \in 1..Len(Digits) : Digits[d] = c) - 1

RECURSIVE Pow10(_)
Pow10(n) == IF n = 0 THEN 1 ELSE 10 * Pow10(n - 1)

RECURSIVE Mantissa(_, _)
Mantissa(s, acc) ==
    IF Len(s) = 0 THEN acc
    ELSE IF Head(s) = "." THEN Mantissa(Tail(s), acc)
    ELSE Mantissa(Tail(s), 10 * acc + DigitValue(Head(s)))

NaN == <<"NaN">>

DecimalLiteral(s, dots) ==
    IF \/ Len(s) = Len(dots)
       \/ Len(dots) > 1
       \/ \E i \in 1..Len(s) : ~IsDigit(s[i]) /\ s[i] # "."
    THEN Err("ParseFloatError")
    ELSE Ok(<<Mantissa(s, 0), IF Len(dots) = 0 THEN 0 ELSE Len(s) - dots[1]>>)

f64_from_str(s) ==
    IF s = <<"N", "a", "N">> THEN Ok(NaN)
    ELSE DecimalLiteral(s, IndicesFrom(s, ".", 1))

\* f64::partial_cmp: None when either side is NaN.
Ordering(x, y) == IF x < y THEN "Less" ELSE IF x = y THEN "Equal" ELSE "Greater"

partial_cmp(a, b) ==
    IF a = NaN \/ b = NaN THEN None
    ELSE Some(Ordering(a[1] * Pow10(b[2]), b[1] * Pow10(a[2])))

\* .ok_or(ConditionError::TypeMismatch)
ok_or_mismatch(ord) == IF IsSome(ord) THEN Ok(ord[2]) ELSE Err("TypeMismatch")

CmpParsed(l, r) ==
    IF IsErr(l) THEN Err("TypeMismatch")
    ELSE IF IsErr(r) THEN Err("TypeMismatch")
    ELSE ok_or_mismatch(partial_cmp(l[2], r[2]))

cmp_numbers(lhs, rhs) == CmpParsed(f64_from_str(lhs), f64_from_str(rhs))

bool_from_str(s) ==
    IF s = <<"t", "r", "u", "e">> THEN Ok(TRUE)
    ELSE IF s = <<"f", "a", "l", "s", "e">> THEN Ok(FALSE)
    ELSE Err("ParseBoolError")

EqParsed(l, r) ==
    IF IsErr(l) THEN Err("TypeMismatch")
    ELSE IF IsErr(r) THEN Err("TypeMismatch")
    ELSE Ok(l[2] = r[2])

bools_eq(lhs, rhs) == EqParsed(bool_from_str(lhs), bool_from_str(rhs))

(***************************************************************************)
(* cmp_dates: DateTime::parse_from_rfc3339 is modelled on the fixed-width  *)
(* form YYYY-MM-DDTHH:MM:SS followed by Z or a numeric offset +HH:MM or    *)
(* -HH:MM (no fraction of a second); a date-time is its UTC day number     *)
(* and second of the day.                                                  *)
(***************************************************************************)
AllDigits(s) == \A i \in 1..Len(s) : IsDigit(s[i])

Field(s, from, to) == Mantissa(SubSeq(s, from, to), 0)

IsLeapYear(y) == (y % 4 = 0 /\ y % 100 # 0) \/ y % 400 = 0

DaysInMonth(y, m) ==
    IF m = 2 THEN (IF IsLeapYear(y) THEN 29 ELSE 28)
    ELSE IF m \in {4, 6, 9, 11} THEN 30 ELSE 31

RECURSIVE DaysBeforeMonth(_, _)
DaysBeforeMonth(y, m) ==
    IF m <= 1 THEN 0 ELSE DaysInMonth(y, m - 1) + DaysBeforeMonth(y, m - 1)

DaysBeforeYear(y) ==
    365 * (y - 1) + ((y - 1) \div 4) - ((y - 1) \div 100) + ((y - 1) \div 400)

\* The date and time of day are well formed and in range.
LocalShape(s) ==
    /\ Len(s) >= 19
    /\ AllDigits(SubSeq(s, 1, 4) \o SubSeq(s, 6, 7) \o SubSeq(s, 9, 10)
                 \o SubSeq(s, 12, 13) \o SubSeq(s, 15, 16) \o SubSeq(s, 18, 19))
    /\ <<s[5], s[8], s[11], s[14], s[17]>> = <<"-", "-", "T", ":", ":">>
    /\ Field(s, 6, 7) \in 1..12
    /\ Field(s, 9, 10) \in 1..DaysInMonth(Field(s, 1, 4), Field(s, 6, 7))
    /\ Field(s, 12, 13) \in 0..23
    /\ Field(s, 15, 16) \in 0..59
    /\ Field(s, 18, 19) \in 0..59

\* The timezone is Z or a well-formed numeric offset.
ZoneShape(s) ==
    \/ Len(s) = 20 /\ s[20] = "Z"
    \/ /\ Len(s) = 25
       /\ s[20] \in {"+", "-"}
       /\ s[23] = ":"
       /\ AllDigits(SubSeq(s, 21, 22) \o SubSeq(s, 24, 25))
       /\ Field(s, 21, 22) \in 0..23
       /\ Field(s, 24, 25) \in 0..59

LocalDay(s) ==
    DaysBeforeYear(Field(s, 1, 4)) + DaysBeforeMonth(Field(s, 1, 4), Field(s, 6, 7))
    + Field(s, 9, 10) - 1

LocalSeconds(s) == Field(s, 12, 13) * 3600 + Field(s, 15, 16) * 60 + Field(s, 18, 19)

OffsetSeconds(s) ==
    IF Len(s) = 20 THEN 0
    ELSE (IF s[20] = "-" THEN -1 ELSE 1)
         * (Field(s, 21, 22) * 3600 + Field(s, 24, 25) * 60)

\* The instant <<day, second of the day>> in UTC.
Instant(day, seconds) == <<day + (seconds \div 86400), seconds % 86400>>

parse_from_rfc3339(s) ==
    IF LocalShape(s) /\ ZoneShape(s)
    THEN Ok(Instant(LocalDay(s), LocalSeconds(s) - OffsetSeconds(s)))
    ELSE Err("ParseError")

CmpInstants(l, r) ==
    IF IsErr(l) THEN Err("TypeMismatch")
    ELSE IF IsErr(r) THEN Err("TypeMismatch")
    ELSE Ok(IF l[2][1] = r[2][1] THEN Ordering(l[2][2], r[2][2])
            ELSE Ordering(l[2][1], r[2][1]))

cmp_dates(lhs, rhs) == CmpInstants(parse_from_rfc3339(lhs), parse_from_rfc3339(rhs))

(***************************************************************************)
(* ip_in_cidr: IpAddr::from_str and IpNetwork::from_str are modelled on    *)
(* IPv4 in dotted-decimal form, the network with an optional /prefix; an   *)
(* address is its four octets.                                             *)
(***************************************************************************)
\* The pieces of s between the occurrences of a separator at indices idx.
SplitAt(s, idx) ==
    [k \in 1..(Len(idx) + 1) |->
        SubSeq(s, IF k = 1 THEN 1 ELSE idx[k - 1] + 1,
                  IF k = Len(idx) + 1 THEN Len(s) ELSE idx[k] - 1)]

IsOctet(part) ==
    /\ Len(part) \in 1..3
    /\ AllDigits(part)
    /\ Mantissa(part, 0) <= 255
    /\ (Len(part) > 1 => part[1] # "0")

Octets(parts) ==
    IF Len(parts) = 4 /\ \A i \in 1..4 : IsOctet(parts[i])
    THEN Ok([i \in 1..4 |-> Mantissa(parts[i], 0)])
    ELSE Err("AddrParseError")

IpAddr_from_str(s) == Octets(SplitAt(s, IndicesFrom(s, ".", 1)))

IsPrefix(part) ==
    /\ Len(part) \in 1..2
    /\ AllDigits(part)
    /\ Mantissa(part, 0) <= 32

Network(addr, prefix) ==
    IF IsErr(addr) THEN Err("IpNetworkError")
    ELSE Ok([ip |-> addr[2], prefix |-> prefix])

NetworkOf(parts) ==
    IF Len(parts) = 1 THEN Network(IpAddr_from_str(parts[1]), 32)
    ELSE IF Len(parts) = 2 /\ IsPrefix(parts[2])
    THEN Network(IpAddr_from_str(parts[1]), Mantissa(parts[2], 0))
    ELSE Err("IpNetworkError")

IpNetwork_from_str(s) == NetworkOf(SplitAt(s, IndicesFrom(s, "/", 1)))

RECURSIVE Pow2(_)
Pow2(n) == IF n = 0 THEN 1 ELSE 2 * Pow2(n - 1)

\* The number of bits of octet i that a prefix covers.
PrefixBits(prefix, i) ==
    IF prefix >= 8 * i THEN 8
    ELSE IF prefix <= 8 * (i - 1) THEN 0
    ELSE prefix - 8 * (i - 1)

\* IpNetwork::contains: the address and the network agree on the prefix bits.
IpNetwork_contains(net, ip) ==
    \A i \in 1..4 :
        (ip[i] \div Pow2(8 - PrefixBits(net.prefix, i)))
            = (net.ip[i] \div Pow2(8 - PrefixBits(net.prefix, i)))

Contained(l, r) ==
    IF IsErr(l) THEN Err("TypeMismatch")
    ELSE IF IsErr(r) THEN Err("TypeMismatch")
    ELSE Ok(IpNetwork_contains(r[2], l[2]))

ip_in_cidr(lhs, rhs) == Contained(IpAddr_from_str(lhs), IpNetwork_from_str(rhs))

(***************************************************************************)
(* arn_eq and arn_like: both sides are parsed as ARNs; equality is over    *)
(* the raw form, "like" takes the target as a resource pattern and is true *)
(* for the pattern "*".                                                    *)
(***************************************************************************)
ArnsEqual(l, r) ==
    IF IsErr(l) THEN Err("TypeMismatch")
    ELSE IF IsErr(r) THEN Err("TypeMismatch")
    ELSE Ok(ARN_eq(l[2], r[2]))

arn_eq(lhs, rhs) == ArnsEqual(ARN_from_str(lhs), ARN_from_str(rhs))

ArnIsLike(l, r) ==
    IF IsErr(l) THEN Err("TypeMismatch")
    ELSE IF IsErr(r) THEN Err("TypeMismatch")
    ELSE Ok(ResourceConstraint_matches(Pattern(r[2]), l[2]))

arn_like(lhs, rhs) ==
    IF rhs = <<"*">> THEN Ok(TRUE)
    ELSE ArnIsLike(ARN_from_str(lhs), ARN_from_str(rhs))

\* The negation that also turns an error into a match.
map_not_lenient(r) == IF IsErr(r) THEN Ok(TRUE) ELSE Ok(~r[2])

\* result.map(bool::not)
map_not(r) == IF IsErr(r) THEN r ELSE Ok(~r[2])

UpperCase == <<"A", "B", "C", "D", "E", "F", "G", "H", "I", "J", "K", "L", "M",
               "N", "O", "P", "Q", "R", "S", "T", "U", "V", "W", "X", "Y", "Z">>

LowerCase == <<"a", "b", "c", "d", "e", "f", "g", "h", "i", "j", "k", "l", "m",
               "n", "o", "p", "q", "r", "s", "t", "u", "v", "w", "x", "y", "z">>

to_lowercase(s) ==
    [i \in 1..Len(s) |->
        IF \E u \in 1..Len(UpperCase) : UpperCase[u] = s[i]
        THEN LowerCase[CHOOSE u \in 1..Len(UpperCase) : UpperCase[u] = s[i]]
        ELSE s[i]]

\* Ok(cmp? == ord) and Ok(cmp? != ord), c being the comparator's result.
OrderingIs(c, ord) == IF IsErr(c) THEN c ELSE Ok(c[2] = ord)

OrderingIsNot(c, ord) == IF IsErr(c) THEN c ELSE Ok(c[2] # ord)

NumericIs(value, target, ord) == OrderingIs(cmp_numbers(value, target), ord)

NumericIsNot(value, target, ord) == OrderingIsNot(cmp_numbers(value, target), ord)

DateIs(value, target, ord) == OrderingIs(cmp_dates(value, target), ord)

DateIsNot(value, target, ord) == OrderingIsNot(cmp_dates(value, target), ord)

\* The operators of ConditionOperator modelled here; BinaryEquals is not.
ConditionOperators ==
    {"StringEquals", "StringNotEquals", "StringEqualsIgnoreCase",
     "StringNotEqualsIgnoreCase", "StringLike", "StringNotLike",
     "NumericEquals", "NumericNotEquals", "NumericLessThan",
     "NumericLessThanEquals", "NumericGreaterThan", "NumericGreaterThanEquals",
     "DateEquals", "DateNotEquals", "DateLessThan", "DateLessThanEquals",
     "DateGreaterThan", "DateGreaterThanEquals",
     "Bool", "IpAddress", "NotIpAddress",
     "ArnEquals", "ArnLike", "ArnNotEquals", "ArnNotLike", "Null"}

ConditionOperator_matches(op, value, target) ==
    CASE op = "StringEquals" -> Ok(target = value)
      [] op = "StringNotEquals" -> Ok(target # value)
      [] op = "StringEqualsIgnoreCase" -> Ok(to_lowercase(target) = to_lowercase(value))
      [] op = "StringNotEqualsIgnoreCase" -> Ok(to_lowercase(target) # to_lowercase(value))
      [] op = "StringLike" -> Ok(glob_matches(target, value))
      [] op = "StringNotLike" -> Ok(~glob_matches(target, value))
      [] op = "NumericEquals" -> NumericIs(value, target, "Equal")
      [] op = "NumericNotEquals" -> NumericIsNot(value, target, "Equal")
      [] op = "NumericLessThan" -> NumericIs(value, target, "Less")
      [] op = "NumericLessThanEquals" -> NumericIsNot(value, target, "Greater")
      [] op = "NumericGreaterThan" -> NumericIs(value, target, "Greater")
      [] op = "NumericGreaterThanEquals" -> NumericIsNot(value, target, "Less")
      [] op = "DateEquals" -> DateIs(value, target, "Equal")
      [] op = "DateNotEquals" -> DateIsNot(value, target, "Equal")
      [] op = "DateLessThan" -> DateIs(value, target, "Less")
      [] op = "DateLessThanEquals" -> DateIsNot(value, target, "Greater")
      [] op = "DateGreaterThan" -> DateIs(value, target, "Greater")
      [] op = "DateGreaterThanEquals" -> DateIsNot(value, target, "Less")
      [] op = "Bool" -> bools_eq(value, target)
      [] op = "IpAddress" -> ip_in_cidr(value, target)
      [] op = "NotIpAddress" -> map_not(ip_in_cidr(value, target))
      [] op \in {"ArnEquals", "ArnLike", "ArnNotEquals", "ArnNotLike", "Null"} ->
            Err("NotImplemented")

(***************************************************************************)
(* policy/condition/operator.rs: Operator has no Null, and its Arn         *)
(* operators call arn_eq and arn_like.  BinaryEquals is not modelled.      *)
(***************************************************************************)
Operators == ConditionOperators \ {"Null"}

Operator_matches(op, value, target) ==
    CASE op = "StringEquals" -> Ok(target = value)
      [] op = "StringNotEquals" -> Ok(target # value)
      [] op = "StringEqualsIgnoreCase" -> Ok(to_lowercase(target) = to_lowercase(value))
      [] op = "StringNotEqualsIgnoreCase" -> Ok(to_lowercase(target) # to_lowercase(value))
      [] op = "StringLike" -> Ok(glob_matches(target, value))
      [] op = "StringNotLike" -> Ok(~glob_matches(target, value))
      [] op = "NumericEquals" -> NumericIs(value, target, "Equal")
      [] op = "NumericNotEquals" -> NumericIsNot(value, target, "Equal")
      [] op = "NumericLessThan" -> NumericIs(value, target, "Less")
      [] op = "NumericLessThanEquals" -> NumericIsNot(value, target, "Greater")
      [] op = "NumericGreaterThan" -> NumericIs(value, target, "Greater")
      [] op = "NumericGreaterThanEquals" -> NumericIsNot(value, target, "Less")
      [] op = "DateEquals" -> DateIs(value, target, "Equal")
      [] op = "DateNotEquals" -> DateIsNot(value, target, "Equal")
      [] op = "DateLessThan" -> DateIs(value, target, "Less")
      [] op = "DateLessThanEquals" -> DateIsNot(value, target, "Greater")
      [] op = "DateGreaterThan" -> DateIs(value, target, "Greater")
      [] op = "DateGreaterThanEquals" -> DateIsNot(value, target, "Less")
      [] op = "Bool" -> bools_eq(value, target)
      [] op = "IpAddress" -> ip_in_cidr(value, target)
      [] op = "NotIpAddress" -> map_not(ip_in_cidr(value, target))
      [] op = "ArnEquals" -> arn_eq(value, target)
      [] op = "ArnLike" -> arn_like(value, target)
      [] op = "ArnNotEquals" -> map_not(arn_eq(value, target))
      [] op = "ArnNotLike" -> map_not(arn_like(value, target))

ConditionOperator_try_from(value) ==
    IF value \in ConditionOperators THEN Ok(value)
    ELSE Err("unrecognized condition operator")

(***************************************************************************)
(* policy/condition/quantifier.rs: a quantifier is <<"ForAllValues", op>>, *)
(* <<"ForAnyValue", op>> or <<"Null">>; values is an Option of a list.     *)
(***************************************************************************)
ForAllValues(op) == <<"ForAllValues", op>>

ForAnyValue(op) == <<"ForAnyValue", op>>

QNull == <<"Null">>

\* The inner fold without the test of `found`: each comparison replaces the
\* one before it, so the last target decides.
RECURSIVE FindTarget_last_wins(_, _, _, _)
FindTarget_last_wins(op, value, targets, found) ==
    IF Len(targets) = 0 \/ IsErr(found) THEN found
    ELSE FindTarget_last_wins(op, value, Tail(targets),
                              Operator_matches(op, value, Head(targets)))

\* targets.iter().try_fold(false, |found, target| ...)
RECURSIVE FindTarget(_, _, _, _)
FindTarget(op, value, targets, found) ==
    IF Len(targets) = 0 \/ IsErr(found) THEN found
    ELSE FindTarget(op, value, Tail(targets),
                    IF found[2] THEN found
                    ELSE Operator_matches(op, value, Head(targets)))

\* values.iter().try_fold(true, |result, value| ...) of matches_all
RECURSIVE FoldAll(_, _, _, _)
FoldAll(op, values, targets, acc) ==
    IF Len(values) = 0 \/ IsErr(acc) THEN acc
    ELSE FoldAll(op, Tail(values), targets,
                 IF ~acc[2] THEN acc
                 ELSE FindTarget(op, Head(values), targets, Ok(FALSE)))

\* Only the first context value is looked at.
matches_all_first_value(op, values, targets) ==
    IF values = None \/ Len(values[2]) = 0 THEN Ok(TRUE)
    ELSE FindTarget(op, values[2][1], targets, Ok(FALSE))

matches_all(op, values, targets) ==
    IF values = None THEN Ok(TRUE)
    ELSE FoldAll(op, values[2], targets, Ok(TRUE))

\* values.iter().try_fold(false, |result, value| ...) of matches_any
RECURSIVE FoldAny(_, _, _, _)
FoldAny(op, values, targets, acc) ==
    IF Len(values) = 0 \/ IsErr(acc) THEN acc
    ELSE FoldAny(op, Tail(values), targets,
                 IF acc[2] THEN acc
                 ELSE FindTarget(op, Head(values), targets, Ok(FALSE)))

\* An absent key counts as a match, as for ...IfExists.
matches_any_if_exists(op, values, targets) ==
    IF values = None THEN Ok(TRUE)
    ELSE FoldAny(op, values[2], targets, Ok(FALSE))

matches_any(op, values, targets) ==
    IF values = None THEN Ok(FALSE)
    ELSE FoldAny(op, values[2], targets, Ok(FALSE))

\* The first target decides, however many there are.
matches_null_first_target(values, targets) ==
    IF Len(targets) >= 1
    THEN Ok((values = None) = (targets[1] = <<"t", "r", "u", "e">>))
    ELSE Err("Null condition must take exactly one argument")

matches_null(values, targets) ==
    IF Len(targets) = 1
    THEN Ok((values = None) = (targets[1] = <<"t", "r", "u", "e">>))
    ELSE Err("Null condition must take exactly one argument")

Quantifier_matches(q, values, targets) ==
    CASE q[1] = "ForAllValues" -> matches_all(q[2], values, targets)
      [] q[1] = "ForAnyValue" -> matches_any(q[2], values, targets)
      [] q[1] = "Null" -> matches_null(values, targets)

(***************************************************************************)
(* policy/condition/nullable.rs: a nullable is <<"Expect", op>>,           *)
(* <<"IfExists", op>> or <<"IsNull">>; value is an Option of a string.     *)
(***************************************************************************)
Expect(op) == <<"Expect", op>>

IfExists(op) == <<"IfExists", op>>

IsNull == <<"IsNull">>

\* IfExists handled as Expect: an absent value is never a match.
Nullable_matches_expect(n, value, target) ==
    IF n[1] = "IsNull"
    THEN IF target = <<"t", "r", "u", "e">> THEN Ok(value = None)
         ELSE IF target = <<"f", "a", "l", "s", "e">> THEN Ok(IsSome(value))
         ELSE Err("Null target must be either 'true' or 'false'")
    ELSE IF IsSome(value) THEN Operator_matches(n[2], value[2], target)
    ELSE Ok(FALSE)

Nullable_matches(n, value, target) ==
    CASE n[1] = "Expect" ->
            IF IsSome(value) THEN Operator_matches(n[2], value[2], target)
            ELSE Ok(FALSE)
      [] n[1] = "IsNull" ->
            IF target = <<"t", "r", "u", "e">> THEN Ok(value = None)
            ELSE IF target = <<"f", "a", "l", "s", "e">> THEN Ok(IsSome(value))
            ELSE Err("Null target must be either 'true' or 'false'")
      [] n[1] = "IfExists" ->
            IF IsSome(value) THEN Operator_matches(n[2], value[2], target)
            ELSE Ok(TRUE)

(***************************************************************************)
(* ConditionSet: the groups and, inside a group, the entries are sequences *)
(* in the order the hash maps iterate them; a value map is a function from *)
(* its keys to value lists.  Indexing an empty target list panics.         *)
(***************************************************************************)
Panic == <<"Panic", "index out of bounds">>

\* The fold reduced to targets.first(): only the first target is compared.
FoldTargets_first(op, value, targets, acc) ==
    IF Len(targets) = 0 THEN acc
    ELSE ConditionOperator_matches(op, value, Head(targets))

\* targets.iter().fold(Ok(false), ...)
RECURSIVE FoldTargets(_, _, _, _)
FoldTargets(op, value, targets, acc) ==
    IF Len(targets) = 0 THEN acc
    ELSE FoldTargets(op, value, Tail(targets),
                     IF acc = Ok(FALSE)
                     THEN ConditionOperator_matches(op, value, Head(targets))
                     ELSE acc)

\* The body of the inner closure of ConditionSet::matches for one entry.
EntryMatches(op, key, targets, value_map) ==
    IF key \in DOMAIN value_map
    THEN IF op = "Null"
         THEN IF Len(targets) = 0 THEN Panic
              ELSE Ok(targets[1] = <<"f", "a", "l", "s", "e">>)
         ELSE LET values == value_map[key]
              IN  IF Len(values) # 1 THEN Err("TooManyValues")
                  ELSE FoldTargets(op, values[1], targets, Ok(FALSE))
    ELSE IF op = "Null"
         THEN IF Len(targets) = 0 THEN Panic
              ELSE Ok(targets[1] = <<"t", "r", "u", "e">>)
         ELSE Err("NotImplemented")

\* The fold without its early return: every entry is evaluated and the last
\* one decides.
FoldEntries_last(op, entries, value_map, acc) ==
    IF Len(entries) = 0 THEN acc
    ELSE EntryMatches(op, entries[Len(entries)].key, entries[Len(entries)].targets,
                      value_map)

\* target_map.iter().fold(Ok(true), ...)
RECURSIVE FoldEntries(_, _, _, _)
FoldEntries(op, entries, value_map, acc) ==
    IF Len(entries) = 0 \/ acc = Panic THEN acc
    ELSE FoldEntries(op, Tail(entries), value_map,
                     IF acc = Ok(TRUE)
                     THEN EntryMatches(op, Head(entries).key, Head(entries).targets,
                                       value_map)
                     ELSE acc)

\* self.conditions.iter().fold(Ok(true), ...)
RECURSIVE FoldGroups(_, _, _)
FoldGroups(groups, value_map, acc) ==
    IF Len(groups) = 0 \/ acc = Panic THEN acc
    ELSE FoldGroups(Tail(groups), value_map,
                    IF acc = Ok(TRUE)
                    THEN FoldEntries(Head(groups).op, Head(groups).target_map,
                                     value_map, Ok(TRUE))
                    ELSE acc)

ConditionSet_matches(conditions, value_map) ==
    FoldGroups(conditions, value_map, Ok(TRUE))

(***************************************************************************)
(* policy/context.rs: global is a value map, resources maps the raw string *)
(* of an ARN (its equality and hash) to a value map.                       *)
(***************************************************************************)
Context_globals(ctx) == ctx.global

Context_resource(ctx, arn) ==
    IF ARN_raw(arn) \in DOMAIN ctx.resources
    THEN Some(ctx.resources[ARN_raw(arn)])
    ELSE None

\* extend written as entry(k).or_insert(v): a key the first map holds keeps
\* its value.
extend_or_insert(a, b) ==
    [k \in DOMAIN a \cup DOMAIN b |-> IF k \in DOMAIN a THEN a[k] ELSE b[k]]

\* HashMap::extend: the entries of the second map replace those of the first.
extend(a, b) ==
    [k \in DOMAIN a \cup DOMAIN b |-> IF k \in DOMAIN b THEN b[k] ELSE a[k]]

(***************************************************************************)
(* policy/statement.rs                                                     *)
(***************************************************************************)
\* The map matches_conditions builds for conditions.matches.
ExtendedWith(globals, rsrc_values) ==
    IF IsSome(rsrc_values) THEN extend(globals, rsrc_values[2]) ELSE globals

Statement_key_values(resource, ctx) ==
    ExtendedWith(Context_globals(ctx), Context_resource(ctx, resource))

Statement_matches_conditions(stmt, resource, ctx) ==
    IF ~IsSome(stmt.conditions) THEN Ok(TRUE)
    ELSE ConditionSet_matches(stmt.conditions[2], Statement_key_values(resource, ctx))

\* matches_action without the negation of the NotAction arm.
Statement_matches_action_unnegated(stmt, action) ==
    AnyActionMatches(stmt.actions[2], action)

Statement_matches_action(stmt, action) ==
    IF stmt.actions[1] = "Action"
    THEN AnyActionMatches(stmt.actions[2], action)
    ELSE ~AnyActionMatches(stmt.actions[2], action)

Statement_matches_resource(stmt, resource) ==
    IF stmt.resources[1] = "Resource"
    THEN AnyResourceMatches(stmt.resources[2], resource)
    ELSE ~AnyResourceMatches(stmt.resources[2], resource)

\* The end of check_action without the test of the boolean: a condition set
\* that is false lets the statement's effect through.
AfterConditions_any(m, effect) ==
    IF ~IsOk(m) THEN m
    ELSE Ok(effect)

\* The end of check_action, m being what matches_conditions returned: `?`
\* hands an error on, false is Unspecified, true the statement's effect.
AfterConditions(m, effect) ==
    IF ~IsOk(m) THEN m
    ELSE IF ~m[2] THEN Ok("Unspecified")
    ELSE Ok(effect)

\* check_action with the condition set consulted before the action and the
\* resource clause, so that its error is handed on whatever they say.
Statement_check_action_conditions_first(stmt, action, resource, ctx) ==
    IF IsErr(Statement_matches_conditions(stmt, resource, ctx))
    THEN Statement_matches_conditions(stmt, resource, ctx)
    ELSE IF ~Statement_matches_action(stmt, action) THEN Ok("Unspecified")
    ELSE IF ~Statement_matches_resource(stmt, resource) THEN Ok("Unspecified")
    ELSE AfterConditions(Statement_matches_conditions(stmt, resource, ctx), stmt.effect)

Statement_check_action(stmt, action, resource, ctx) ==
    IF ~Statement_matches_action(stmt, action) THEN Ok("Unspecified")
    ELSE IF ~Statement_matches_resource(stmt, resource) THEN Ok("Unspecified")
    ELSE AfterConditions(Statement_matches_conditions(stmt, resource, ctx), stmt.effect)

Statement_matches_principals(stmt, principal) ==
    CASE stmt.principals[1] = "None" -> TRUE
      [] stmt.principals[1] = "Principal" ->
            AnyPrincipalMatches(stmt.principals[2], principal)
      [] stmt.principals[1] = "NotPrincipal" ->
            ~AnyPrincipalMatches(stmt.principals[2], principal)

\* check without the principal gate.
Statement_check_ungated(stmt, principal, action, resource, ctx) ==
    Statement_check_action(stmt, action, resource, ctx)

Statement_check(stmt, principal, action, resource, ctx) ==
    IF Statement_matches_principals(stmt, principal)
    THEN Statement_check_action(stmt, action, resource, ctx)
    ELSE Ok("Unspecified")

\* Whether a statement's check reaches the point where matches_conditions
\* builds the value map: past the principal gate (gate = FALSE for
\* check_action), the action and the resource clause, with conditions present.
Statement_builds_map(stmt, gate, principal, action, resource) ==
    /\ gate => Statement_matches_principals(stmt, principal)
    /\ Statement_matches_action(stmt, action)
    /\ Statement_matches_resource(stmt, resource)
    /\ IsSome(stmt.conditions)

(***************************************************************************)
(* policy.rs: the fold of Policy::check_action and Policy::check.  The     *)
(* accumulator carries the result and, for the record, the indices of the  *)
(* statements whose check was called.  A request is a record [gate,        *)
(* principal, action, resource]; gate says whether the principal is        *)
(* checked (Policy::check) or not (Policy::check_action).                  *)
(***************************************************************************)
StmtCheck(stmt, req, ctx) ==
    IF req.gate
    THEN Statement_check(stmt, req.principal, req.action, req.resource, ctx)
    ELSE Statement_check_action(stmt, req.action, req.resource, ctx)

\* AfterAllow with its match arms reduced to the statement's own result: a
\* Deny-effect statement that does not apply overwrites the earlier Allow.
AfterAllow_forgets(called) == called

\* AfterAllow with `Ok(CheckResult::Deny) => Deny, _ => Allow`: the Err arm
\* is lost and a failed Deny statement leaves the Allow standing.
AfterAllow_recovers(called) ==
    IF called.result = Ok("Deny") THEN called
    ELSE [called EXCEPT !.result = Ok("Allow")]

\* AfterAllow with every arm reduced to the earlier Allow: the Deny-effect
\* statement is evaluated but what it returns is dropped.
AfterAllow_keeps(called) == [called EXCEPT !.result = Ok("Allow")]

\* The closure's arm for Ok(Allow) on a Deny statement, `called` being the
\* outcome of the statement's check: a Deny or a failure replaces the Allow.
AfterAllow(called) ==
    IF called.result = Ok("Deny") \/ ~IsOk(called.result)
    THEN called
    ELSE [called EXCEPT !.result = Ok("Allow")]

Called(acc, stmt, i, req, ctx) ==
    [result |-> StmtCheck(stmt, req, ctx), evaluated |-> Append(acc.evaluated, i)]

\* One call of the fold's closure on statement i.
\* FoldStep as a chain keyed to the first result that is not Unspecified:
\* once a statement has allowed, no later statement is evaluated.
FoldStep_first_wins(acc, stmt, i, req, ctx) ==
    IF acc.result = Ok("Unspecified") THEN Called(acc, stmt, i, req, ctx) ELSE acc

\* FoldStep without the test of the statement's effect: once a statement
\* has allowed, every later statement is evaluated, the Allow-effect ones too.
FoldStep_evaluates_all(acc, stmt, i, req, ctx) ==
    CASE acc.result = Ok("Unspecified") -> Called(acc, stmt, i, req, ctx)
      [] acc.result = Ok("Allow") -> AfterAllow(Called(acc, stmt, i, req, ctx))
      [] OTHER -> acc

FoldStep(acc, stmt, i, req, ctx) ==
    CASE acc.result = Ok("Unspecified") -> Called(acc, stmt, i, req, ctx)
      [] acc.result = Ok("Allow") /\ stmt.effect = "Deny" ->
            AfterAllow(Called(acc, stmt, i, req, ctx))
      [] OTHER -> acc

RECURSIVE PolicyFold(_, _, _, _, _)
PolicyFold(statements, i, acc, req, ctx) ==
    IF i > Len(statements) THEN acc
    ELSE PolicyFold(statements, i + 1, FoldStep(acc, statements[i], i, req, ctx),
                    req, ctx)

PolicyRun(statements, req, ctx) ==
    PolicyFold(statements, 1, [result |-> Ok("Unspecified"), evaluated |-> <<>>],
               req, ctx)

Policy_check_action(statements, action, resource, ctx) ==
    PolicyRun(statements,
              [gate |-> FALSE, principal |-> None, action |-> action,
               resource |-> resource], ctx).result

Policy_check(statements, principal, action, resource, ctx) ==
    PolicyRun(statements,
              [gate |-> TRUE, principal |-> principal, action |-> action,
               resource |-> resource], ctx).result

(***************************************************************************)
(* The JSON tree (json::JsonValue) and the projection of a statement from  *)
(* it (Statement::try_from).  An object is the sequence of its <<key,      *)
(* value>> entries; indexing a missing key, or a value that is no object,  *)
(* gives null.                                                             *)
(***************************************************************************)
JNull == <<"null">>

JStr(s) == <<"string", s>>

JNum(n) == <<"number", n>>

JArr(xs) == <<"array", xs>>

JObj(es) == <<"object", es>>

is_null(v) == v[1] = "null"

is_string(v) == v[1] = "string"

is_object(v) == v[1] = "object"

is_array(v) == v[1] = "array"

Index(v, key) ==
    IF is_object(v) /\ \E i \in 1..Len(v[2]) : v[2][i][1] = key
    THEN v[2][CHOOSE i \in 1..Len(v[2]) : v[2][i][1] = key][2]
    ELSE JNull

members(v) == IF is_array(v) THEN v[2] ELSE <<>>

entries(v) == IF is_object(v) THEN v[2] ELSE <<>>

\* collect::<Result<Vec<_>, _>>(): the first error, or all the values.
RECURSIVE Collect(_)
Collect(rs) ==
    IF Len(rs) = 0 THEN Ok(<<>>)
    ELSE IF ~IsOk(Head(rs)) THEN Head(rs)
    ELSE LET rest == Collect(Tail(rs))
         IN  IF IsOk(rest) THEN Ok(<<Head(rs)[2]>> \o rest[2]) ELSE rest

ActionConstraint_try_from(v) ==
    IF ~is_string(v) THEN Err("expected Action to be a string")
    ELSE IF v[2] = <<"*">> THEN Ok(MatchAny)
    ELSE LET a == Action_try_from(v[2])
         IN  IF IsOk(a) THEN Ok(Pattern(a[2]))
             ELSE Err("expected Action to be an action pattern")

ResourceConstraint_try_from(v) ==
    IF ~is_string(v) THEN Err("expected Resource to be a string")
    ELSE IF v[2] = <<"*">> THEN Ok(MatchAny)
    ELSE LET a == ARN_from_str(v[2])
         IN  IF IsOk(a) THEN Ok(Pattern(a[2]))
             ELSE Err("expected Resource to be an ARN pattern")

parse_effect(v) ==
    IF ~is_string(v) THEN Err("expected Effect to be a string")
    ELSE IF v[2] = <<"A", "l", "l", "o", "w">> THEN Ok("Allow")
    ELSE IF v[2] = <<"D", "e", "n", "y">> THEN Ok("Deny")
    ELSE Err("expected Effect to be Allow or Deny")

parse_actions(v) ==
    IF is_string(v)
    THEN LET a == ActionConstraint_try_from(v)
         IN  IF IsOk(a) THEN Ok(<<a[2]>>) ELSE a
    ELSE Collect([i \in 1..Len(members(v)) |-> ActionConstraint_try_from(members(v)[i])])

parse_resources(v) ==
    IF is_string(v)
    THEN LET r == ResourceConstraint_try_from(v)
         IN  IF IsOk(r) THEN Ok(<<r[2]>>) ELSE r
    ELSE Collect([i \in 1..Len(members(v)) |-> ResourceConstraint_try_from(members(v)[i])])

parse_aws_principal(v) ==
    IF ~is_string(v) THEN Err("expected AWS principal to be a string")
    ELSE IF v[2] = <<"*">> THEN Ok(AWSAny)
    ELSE LET account == IF Len(v[2]) > 0 /\ \A i \in 1..Len(v[2]) : IsDigit(v[2][i])
                        THEN <<"a", "r", "n", ":", "a", "w", "s", ":", "i", "a", "m",
                               ":", ":">> \o v[2] \o <<":", "r", "o", "o", "t">>
                        ELSE v[2]
             arn == ARN_from_str(account)
         IN  IF IsOk(arn) THEN Ok(Pattern(<<"AWS", arn[2]>>))
             ELSE Err("expected AWS principal to be an ARN or '*'")

\* parse_federated_principal, parse_service_principal,
\* parse_canonicaluser_principal
parse_named_principal(variant, v) ==
    IF ~is_string(v) THEN Err("expected Federated principal to be a string")
    ELSE Ok(Pattern(<<variant, v[2]>>))

parse_principal_entry(key, v) ==
    LET one(x) == IF key = "AWS" THEN parse_aws_principal(x)
                  ELSE parse_named_principal(key, x)
    IN  IF key \notin {"AWS", "Federated", "Service", "CanonicalUser"}
        THEN Err("expected Principal to be *, AWS, Federated, Service, or CanonicalUser")
        ELSE IF is_string(v)
        THEN LET c == one(v) IN IF IsOk(c) THEN Ok(<<c[2]>>) ELSE c
        ELSE Collect([i \in 1..Len(members(v)) |-> one(members(v)[i])])

\* .fold(Ok(Vec::new()), |acc, value| ...) over the entries' constraint lists
RECURSIVE FoldPrincipals(_, _)
FoldPrincipals(rs, acc) ==
    IF Len(rs) = 0 THEN acc
    ELSE FoldPrincipals(Tail(rs),
                        IF IsOk(Head(rs))
                        THEN IF IsOk(acc) THEN Ok(acc[2] \o Head(rs)[2]) ELSE acc
                        ELSE Head(rs))

parse_principals(v) ==
    IF is_null(v) THEN Ok(<<>>)
    ELSE IF is_string(v)
    THEN IF v[2] = <<"*">> THEN Ok(<<MatchAny>>)
         ELSE Err("expected Principal to be non-string value except '*'")
    ELSE IF ~is_object(v)
    THEN Err("expected Principal to be an object when it is not '*'")
    ELSE FoldPrincipals([i \in 1..Len(entries(v)) |->
                            parse_principal_entry(entries(v)[i][1], entries(v)[i][2])],
                        Ok(<<>>))

\* ConditionSet::try_from_values: one group's {key: target or [targets]}.
ConditionSet_try_from_values(v) ==
    Collect([i \in 1..Len(entries(v)) |->
        LET key == entries(v)[i][1]
            val == entries(v)[i][2]
        IN  IF is_string(val) THEN Ok([key |-> key, targets |-> <<val[2]>>])
            ELSE IF \E j \in 1..Len(members(val)) : ~is_string(members(val)[j])
            THEN Err("expected condition values to be strings")
            ELSE Ok([key |-> key,
                     targets |-> [j \in 1..Len(members(val)) |-> members(val)[j][2]]])])

ConditionSet_try_from(v) ==
    Collect([i \in 1..Len(entries(v)) |->
        LET operator == ConditionOperator_try_from(entries(v)[i][1])
            values == ConditionSet_try_from_values(entries(v)[i][2])
        IN  IF ~IsOk(operator) THEN operator
            ELSE IF ~IsOk(values) THEN values
            ELSE Ok([op |-> operator[2], target_map |-> values[2]])])

parse_conditions(v) ==
    IF is_null(v) THEN Ok(None)
    ELSE IF is_object(v)
    THEN LET c == ConditionSet_try_from(v) IN IF IsOk(c) THEN Ok(Some(c[2])) ELSE c
    ELSE Err("expected Condition to be an object")

\* The Action/NotAction match of Statement::try_from.
try_from_actions(action, not_action) ==
    CASE is_null(action) /\ is_null(not_action) -> Err("missing Action or NotAction")
      [] ~is_null(action) /\ is_null(not_action) ->
            LET l == parse_actions(action)
            IN  IF IsOk(l) THEN Ok(<<"Action", l[2]>>) ELSE l
      [] is_null(action) /\ ~is_null(not_action) ->
            LET l == parse_actions(action)
            IN  IF IsOk(l) THEN Ok(<<"NotAction", l[2]>>) ELSE l
      [] OTHER -> Err("cannot have both Action and NotAction in same statement")

try_from_principals(principal, not_principal) ==
    CASE is_null(principal) /\ is_null(not_principal) -> Ok(<<"None">>)
      [] ~is_null(principal) /\ is_null(not_principal) ->
            LET l == parse_principals(principal)
            IN  IF IsOk(l) THEN Ok(<<"Principal", l[2]>>) ELSE l
      [] is_null(principal) /\ ~is_null(not_principal) ->
            LET l == parse_principals(not_principal)
            IN  IF IsOk(l) THEN Ok(<<"NotPrincipal", l[2]>>) ELSE l
      [] OTHER -> Err("cannot have both Principal and NotPrincipal in same statement")

\* The Resource/NotResource match keyed to resource.is_null() alone: with
\* both elements present the Resource list is taken.
try_from_resources_lenient(resource, not_resource) ==
    IF is_null(resource) /\ is_null(not_resource)
    THEN Err("missing Resource or NotResource")
    ELSE IF ~is_null(resource)
    THEN LET l == parse_resources(resource)
         IN  IF IsOk(l) THEN Ok(<<"Resource", l[2]>>) ELSE l
    ELSE LET l == parse_resources(not_resource)
         IN  IF IsOk(l) THEN Ok(<<"NotResource", l[2]>>) ELSE l

try_from_resources(resource, not_resource) ==
    CASE is_null(resource) /\ is_null(not_resource) -> Err("missing Resource or NotResource")
      [] ~is_null(resource) /\ is_null(not_resource) ->
            LET l == parse_resources(resource)
            IN  IF IsOk(l) THEN Ok(<<"Resource", l[2]>>) ELSE l
      [] is_null(resource) /\ ~is_null(not_resource) ->
            LET l == parse_resources(not_resource)
            IN  IF IsOk(l) THEN Ok(<<"NotResource", l[2]>>) ELSE l
      [] OTHER -> Err("cannot have both Resource and NotResource in same statement")

Statement_try_from(value) ==
    LET sid == Index(value, "Sid")
        effect == parse_effect(Index(value, "Effect"))
        actions == try_from_actions(Index(value, "Action"), Index(value, "NotAction"))
        principals == try_from_principals(Index(value, "Principal"),
                                          Index(value, "NotPrincipal"))
        resources == try_from_resources(Index(value, "Resource"),
                                        Index(value, "NotResource"))
        conditions == parse_conditions(Index(value, "Condition"))
    IN  IF ~is_string(sid) /\ ~is_null(sid) THEN Err("expected Sid to be a string")
        ELSE IF ~IsOk(effect) THEN effect
        ELSE IF ~IsOk(actions) THEN actions
        ELSE IF ~IsOk(principals) THEN principals
        ELSE IF ~IsOk(resources) THEN resources
        ELSE IF ~IsOk(conditions) THEN conditions
        ELSE Ok([sid |-> IF is_string(sid) THEN Some(sid[2]) ELSE None,
                 effect |-> effect[2],
                 principals |-> principals[2],
                 actions |-> actions[2],
                 resources |-> resources[2],
                 conditions |-> conditions[2]])

(***************************************************************************)
(* The inputs: the strings, requests, contexts and statements the          *)
(* specifications draw from.                                               *)
(***************************************************************************)
MaxStmts == 2

MaxTargets == 2

ArnS3(res) ==
    <<"a", "r", "n", ":", "a", "w", "s", ":", "s", "3", ":", ":", ":">> \o res

ArnIam(res) ==
    <<"a", "r", "n", ":", "a", "w", "s", ":", "i", "a", "m", ":", ":", "1", ":">> \o res

Bucket1 == ARN_from_str(ArnS3(<<"b", "1">>))[2]

Bucket2 == ARN_from_str(ArnS3(<<"b", "2">>))[2]

StarOne == ARN_from_str(ArnS3(<<"*", "1">>))[2]

User1 == <<"AWS", ARN_from_str(ArnIam(<<"u", "1">>))[2]>>

User2 == <<"AWS", ARN_from_str(ArnIam(<<"u", "2">>))[2]>>

Ec2 == <<"Service", <<"e", "c", "2">>>>

ServiceGlob == <<"Service", <<"e", "*">>>>

GetObject == Action_try_from(<<"s", ":", "g">>)[2]

PutObject == Action_try_from(<<"s", ":", "p">>)[2]

ServiceStar == Action_try_from(<<"s", ":", "*">>)[2]

Actions == {GetObject, PutObject}

Resources == {Bucket1, Bucket2}

Principals == {User1, Ec2}

EmptyMap == <<>>

\* The value lists a context key may hold.
VA == <<<<"a">>>>

VB == <<<<"b">>>>

V1 == <<<<"1">>>>

VAB == <<<<"a">>, <<"b">>>>

Ctx(global, resources) == [global |-> global, resources |-> resources]

\* Contexts with a key in the global map only, in a resource entry only and in
\* both, with entries for the requested and for the other resource, and with
\* a key that holds two values.
Contexts ==
    {Ctx(EmptyMap, EmptyMap),
     Ctx("k" :> VA, EmptyMap),
     Ctx(("k" :> VB) @@ ("j" :> VB), ArnS3(<<"b", "1">>) :> ("k" :> VA)),
     Ctx("k" :> V1,
         (ArnS3(<<"b", "1">>) :> ("j" :> VA)) @@ (ArnS3(<<"b", "2">>) :> ("k" :> VAB))),
     Ctx("j" :> VA, ArnS3(<<"b", "2">>) :> ("k" :> VA))}

\* The contexts policies of several statements are checked in: those that
\* hold a value for the key the statements' conditions read. A key without
\* a value is met where statements are checked one by one.
PolicyContexts == {c \in Contexts : "k" \in DOMAIN c.global}

\* A condition set of one group with one entry.
OneCondition(op, key, targets) ==
    <<[op |-> op, target_map |-> <<[key |-> key, targets |-> targets]>>]>>

ConditionChoices ==
    {None,
     Some(OneCondition("StringEquals", "k", VA)),
     Some(OneCondition("NumericEquals", "k", V1)),
     Some(<<[op |-> "StringNotEquals",
             target_map |-> <<[key |-> "k", targets |-> VB],
                              [key |-> "j", targets |-> VA]>>]>>)}

PrincipalChoices ==
    {<<"None">>,
     <<"Principal", <<Pattern(User2), Pattern(ServiceGlob)>>>>,
     <<"NotPrincipal", <<AWSAny>>>>}

ActionChoices ==
    {<<"Action", <<Pattern(PutObject), Pattern(GetObject)>>>>,
     <<"NotAction", <<Pattern(GetObject)>>>>,
     <<"Action", <<Pattern(ServiceStar)>>>>}

ResourceChoices ==
    {<<"Resource", <<MatchAny>>>>,
     <<"Resource", <<Pattern(Bucket1)>>>>,
     <<"NotResource", <<Pattern(Bucket1), Pattern(StarOne)>>>>}

\* Every statement the choices above give: the statements checked one by one.
Statements ==
    [sid : {None}, effect : {"Allow", "Deny"}, principals : PrincipalChoices,
     actions : ActionChoices, resources : ResourceChoices,
     conditions : ConditionChoices]

Stmt(effect, principals, actions, resources, conds) ==
    [sid |-> None, effect |-> effect, principals |-> principals,
     actions |-> actions, resources |-> resources, conditions |-> conds]

\* The statements policies of several statements are built from.
PolicyStatements ==
    UNION {{Stmt(e, <<"None">>, <<"Action", <<MatchAny>>>>,
                 <<"Resource", <<MatchAny>>>>, None),
            Stmt(e, <<"Principal", <<Pattern(User1)>>>>,
                 <<"Action", <<Pattern(GetObject)>>>>,
                 <<"Resource", <<MatchAny>>>>, None),
            Stmt(e, <<"None">>, <<"Action", <<MatchAny>>>>,
                 <<"Resource", <<Pattern(Bucket1)>>>>,
                 Some(OneCondition("StringEquals", "k", VA))),
            Stmt(e, <<"None">>, <<"NotAction", <<Pattern(GetObject)>>>>,
                 <<"Resource", <<MatchAny>>>>,
                 Some(OneCondition("NumericEquals", "k", V1)))} :
           e \in {"Allow", "Deny"}}

\* The sequences over S of length at most n.
SeqsUpTo(S, n) == UNION {[1..m -> S] : m \in 0..n}

NoCall == [fn |-> "none", principal |-> None, action |-> None, resource |-> None]

NoResult == <<"none">>

\* The map the value-map variable shows for a check of `req`.
BuiltMap(statements, indices, req, ctx) ==
    IF \E n \in 1..Len(indices) :
          Statement_builds_map(statements[indices[n]], req.gate, req.principal,
                               req.action, req.resource)
    THEN Some(Statement_key_values(req.resource, ctx))
    ELSE None

Request(gate, principal, action, resource) ==
    [gate |-> gate, principal |-> principal, action |-> action, resource |-> resource]

CallOf(fn, req) ==
    [fn |-> fn, principal |-> req.principal, action |-> req.action,
     resource |-> req.resource]

IdleProjection == json = JNull /\ parsed = None

IdleCondition == cond_set = <<>> /\ cond_values = EmptyMap /\ cond_result = NoResult

\* A matcher is the kind of the value and the value itself.
Matcher(kind, is) == [kind |-> kind, is |-> is]

NoMatcher == Matcher("none", <<>>)

IdleMatcher ==
    /\ matcher = NoMatcher
    /\ m_values = None
    /\ m_targets = <<>>
    /\ m_result = NoResult

IdleCheck ==
    /\ call = NoCall
    /\ result = NoResult
    /\ evaluated = <<>>
    /\ key_values = None

(***************************************************************************)
(* Spec: a policy of up to MaxStmts statements answers requests.           *)
(***************************************************************************)
Init ==
    /\ policy \in SeqsUpTo(PolicyStatements, MaxStmts)
    /\ context \in PolicyContexts
    /\ IdleCheck
    /\ IdleProjection
    /\ IdleCondition
    /\ IdleMatcher

\* What a check leaves in the state: the call, its result, the statements it
\* evaluated and the value map it built.
Returned(fn, req, run) ==
    /\ call' = CallOf(fn, req)
    /\ result' = run.result
    /\ evaluated' = run.evaluated
    /\ key_values' = BuiltMap(policy, run.evaluated, req, context)

PolicyCheckAction ==
    \E action \in Actions, resource \in Resources :
        /\ Returned("Policy::check_action", Request(FALSE, None, action, resource),
                    PolicyRun(policy, Request(FALSE, None, action, resource), context))
        /\ UNCHANGED <<policy, context, projVars, condVars, matchVars>>

PolicyCheck ==
    \E principal \in Principals, action \in Actions, resource \in Resources :
        /\ Returned("Policy::check", Request(TRUE, principal, action, resource),
                    PolicyRun(policy, Request(TRUE, principal, action, resource), context))
        /\ UNCHANGED <<policy, context, projVars, condVars, matchVars>>

Next == PolicyCheckAction \/ PolicyCheck

Spec == Init /\ [][Next]_vars

(***************************************************************************)
(* SpecStmt: one statement answers requests, by itself and as the only     *)
(* statement of a policy.                                                  *)
(***************************************************************************)
InitStmt ==
    /\ policy \in {<<s>> : s \in Statements}
    /\ context \in Contexts
    /\ IdleCheck
    /\ IdleProjection
    /\ IdleCondition
    /\ IdleMatcher

\* The outcome of checking the one statement, in the shape of a policy run.
StatementRun(req) ==
    [result |-> StmtCheck(policy[1], req, context), evaluated |-> <<1>>]

StatementCheckAction ==
    \E action \in Actions, resource \in Resources :
        /\ Len(policy) = 1
        /\ Returned("Statement::check_action", Request(FALSE, None, action, resource),
                    StatementRun(Request(FALSE, None, action, resource)))
        /\ UNCHANGED <<policy, context, projVars, condVars, matchVars>>

StatementCheck ==
    \E principal \in Principals, action \in Actions, resource \in Resources :
        /\ Len(policy) = 1
        /\ Returned("Statement::check", Request(TRUE, principal, action, resource),
                    StatementRun(Request(TRUE, principal, action, resource)))
        /\ UNCHANGED <<policy, context, projVars, condVars, matchVars>>

NextStmt ==
    \/ StatementCheckAction
    \/ StatementCheck
    \/ PolicyCheckAction

SpecStmt == InitStmt /\ [][NextStmt]_vars

(***************************************************************************)
(* SpecProject: a statement is projected from a JSON object and, when the  *)
(* projection succeeds, answers requests.                                  *)
(***************************************************************************)
\* The members a JSON statement is put together from; null stands for a
\* member the object does not have.
Member(key, v) == IF is_null(v) THEN <<>> ELSE <<<<key, v>>>>

JText(str) == JStr(str)

JsonActions ==
    {JNull, JText(<<"s", ":", "g">>),
     JArr(<<JText(<<"s", ":", "p">>), JText(<<"s", ":", "*">>)>>)}

JsonNotActions ==
    {JNull, JText(<<"s", ":", "g">>),
     JArr(<<JText(<<"s", ":", "p">>), JText(<<"s", ":", "g">>)>>)}

JsonResources == {JNull, JText(<<"*">>), JText(ArnS3(<<"b", "1">>))}

JsonNotResources == {JNull, JArr(<<JText(ArnS3(<<"b", "1">>))>>)}

JsonPrincipals == {JNull, JText(<<"*">>), JObj(<<<<"AWS", JText(<<"1">>)>>>>)}

JsonNotPrincipals == {JNull, JObj(<<<<"Service", JText(<<"e", "c", "2">>)>>>>)}

JsonConditions ==
    {JNull, JObj(<<<<"StringEquals", JObj(<<<<"k", JText(<<"a">>)>>>>)>>>>)}

JsonStatements ==
    {JObj(Member("Effect", JText(e)) \o Member("Action", a) \o Member("NotAction", na)
          \o Member("Resource", r) \o Member("NotResource", nr)
          \o Member("Principal", p) \o Member("NotPrincipal", np)
          \o Member("Condition", c)) :
        e \in {<<"A", "l", "l", "o", "w">>, <<"D", "e", "n", "y">>},
        a \in JsonActions, na \in JsonNotActions,
        r \in JsonResources, nr \in JsonNotResources,
        p \in JsonPrincipals, np \in JsonNotPrincipals, c \in JsonConditions}

InitProject ==
    /\ json \in JsonStatements
    /\ parsed = None
    /\ policy = <<>>
    /\ context \in {Ctx("k" :> VA, EmptyMap), Ctx("k" :> VB, EmptyMap)}
    /\ IdleCheck
    /\ IdleCondition
    /\ IdleMatcher

\* The statement a projection hands over, if any.
Projection(r) == IF IsOk(r) THEN <<r[2]>> ELSE <<>>

\* Statement::try_from(&json)
Project ==
    /\ parsed = None
    /\ parsed' = Statement_try_from(json)
    /\ policy' = Projection(Statement_try_from(json))
    /\ UNCHANGED <<json, context, call, result, evaluated, key_values, condVars, matchVars>>

NextProject == Project \/ StatementCheckAction

SpecProject == InitProject /\ [][NextProject]_vars

(***************************************************************************)
(* SpecCond: a condition set is matched against a value map.               *)
(***************************************************************************)
Words == {<<"a">>, <<"b">>, <<"1">>}

CondOperators ==
    {"StringEquals", "StringNotEquals", "StringLike", "NumericEquals",
     "NumericLessThan", "Bool", "ArnEquals", "Null"}

\* Sets of one entry on key k, alone or followed by a group on key j.
SingleEntrySets ==
    {OneCondition(op, "k", targets) :
        op \in CondOperators, targets \in SeqsUpTo(Words, MaxTargets)}

\* The entry on key k followed by an entry on key j in the same group.
TwoEntries(c) ==
    <<[op |-> c[1].op,
       target_map |-> c[1].target_map \o <<[key |-> "j", targets |-> VA]>>]>>

ConditionSets ==
    {<<>>}
    \cup SingleEntrySets
    \cup {c \o OneCondition("StringEqualsIgnoreCase", "j", VA) : c \in SingleEntrySets}
    \cup {TwoEntries(c) : c \in SingleEntrySets}

ValueMaps ==
    {EmptyMap, "k" :> VA, "k" :> VB, "k" :> V1, "k" :> VAB, "j" :> VA,
     ("k" :> VA) @@ ("j" :> VA), ("k" :> V1) @@ ("j" :> VB)}

InitCond ==
    /\ cond_set \in ConditionSets
    /\ cond_values \in ValueMaps
    /\ cond_result = NoResult
    /\ policy = <<>>
    /\ context = Ctx(EmptyMap, EmptyMap)
    /\ IdleCheck
    /\ IdleProjection
    /\ IdleMatcher

\* ConditionSet::matches(&value_map)
Matches ==
    /\ cond_result' = ConditionSet_matches(cond_set, cond_values)
    /\ UNCHANGED <<cond_set, cond_values, evalVars, projVars, matchVars>>

NextCond == Matches

SpecCond == InitCond /\ [][NextCond]_vars

(***************************************************************************)
(* SpecMatch: a quantifier, a nullable or an operator is applied to the    *)
(* values of a context key and a target list.                              *)
(***************************************************************************)
MaxValues == 2

QuantWords ==
    {<<"a">>, <<"1">>, <<"t", "r", "u", "e">>, <<"f", "a", "l", "s", "e">>}

QuantOps == {"StringEquals", "StringNotEquals", "NumericEquals", "Bool"}

Quantifiers ==
    {ForAllValues(op) : op \in QuantOps} \cup {ForAnyValue(op) : op \in QuantOps}
    \cup {QNull}

Nullables ==
    {Expect(op) : op \in QuantOps} \cup {IfExists(op) : op \in QuantOps} \cup {IsNull}

\* A quantifier sees an absent key or a list of values, and a list of targets.
InitQuantifier ==
    /\ matcher \in {Matcher("Quantifier", q) : q \in Quantifiers}
    /\ m_values \in {None} \cup {Some(v) : v \in SeqsUpTo(QuantWords, MaxValues)}
    /\ m_targets \in SeqsUpTo(QuantWords, MaxTargets)

\* A nullable sees an absent or a present value, and one target.
InitNullable ==
    /\ matcher \in {Matcher("Nullable", n) : n \in Nullables}
    /\ m_values \in {None} \cup {Some(<<w>>) : w \in QuantWords}
    /\ m_targets \in {<<w>> : w \in QuantWords}

Noon ==
    <<"2", "0", "2", "0", "-", "0", "4", "-", "0", "1", "T", "1", "2", ":",
      "0", "0", ":", "0", "0", "Z">>

\* The same instant as Noon, written in another timezone.
NoonPlusOne ==
    <<"2", "0", "2", "0", "-", "0", "4", "-", "0", "1", "T", "1", "3", ":",
      "0", "0", ":", "0", "0", "+", "0", "1", ":", "0", "0">>

Midnight ==
    <<"2", "0", "2", "0", "-", "0", "4", "-", "0", "1", "T", "0", "0", ":",
      "0", "0", ":", "0", "0", "Z">>

\* A date-time without a timezone.
NaiveNoon ==
    <<"2", "0", "2", "0", "-", "0", "4", "-", "0", "1", "T", "1", "2", ":",
      "0", "0", ":", "0", "0">>

Host ==
    <<"1", "0", ".", "0", ".", "0", ".", "1">>

Net8 ==
    <<"1", "0", ".", "0", ".", "0", ".", "0", "/", "8">>

Net24 ==
    <<"1", "0", ".", "0", ".", "1", ".", "0", "/", "2", "4">>

\* Strings of every family of operators: text in both cases, a glob, numbers,
\* booleans, date-times, addresses, networks and ARNs.
OpWords ==
    {<<"a">>, <<"A">>, <<"*">>, <<"1">>, <<"1", ".", "0">>, <<"N", "a", "N">>,
     <<"t", "r", "u", "e">>, Noon, NoonPlusOne, Midnight, NaiveNoon,
     Host, Net8, Net24, ARN_raw(Bucket1), ARN_raw(StarOne)}

\* An operator sees one value and one target.
InitOperator ==
    /\ matcher \in {Matcher("Operator", op) : op \in Operators}
                   \cup {Matcher("ConditionOperator", op) : op \in ConditionOperators}
    /\ m_values \in {Some(<<w>>) : w \in OpWords}
    /\ m_targets \in {<<w>> : w \in OpWords}

\* The longest glob and the longest text matched against it.
MaxGlob == 3

GlobChars == {"a", ".", "*", "?"}

TextChars == {"a", ".", "\n"}

\* glob_matches sees a glob, held as the one target, and a text, held as the
\* one value.
InitGlob ==
    /\ matcher = Matcher("glob_matches", <<>>)
    /\ m_values \in {Some(<<t>>) : t \in SeqsUpTo(TextChars, MaxGlob)}
    /\ m_targets \in {<<g>> : g \in SeqsUpTo(GlobChars, MaxGlob)}

\* A resource constraint sees an ARN, held as the one value by its raw string.
InitResourceConstraint ==
    /\ matcher \in {Matcher("ResourceConstraint", c) :
                      c \in {MatchAny} \cup
                            {Pattern(ARN_from_str(ArnS3(r))[2]) :
                                r \in SeqsUpTo({"a", "?", "*"}, MaxGlob)}}
    /\ m_values \in {Some(<<ArnS3(r)>>) : r \in SeqsUpTo({"a", "b"}, MaxGlob)}
    /\ m_targets = <<>>

\* The action strings service:action with the two parts drawn from sets.
ActionTexts(services, actions) ==
    {sv \o <<":">> \o ac : sv \in services, ac \in actions}

\* An action constraint sees an action, held as the one value by its string.
InitActionConstraint ==
    /\ matcher \in {Matcher("ActionConstraint", c) :
                      c \in {MatchAny} \cup
                            {Pattern(Action_try_from(a)[2]) :
                                a \in ActionTexts({<<"s">>, <<"?">>, <<"*">>},
                                                  SeqsUpTo({"g", "?", "*"}, MaxGlob))}}
    /\ m_values \in {Some(<<a>>) :
                        a \in ActionTexts({<<"s">>, <<"t">>},
                                          SeqsUpTo({"g", "p"}, MaxGlob))}
    /\ m_targets = <<>>

\* The most colon-separated parts of a text handed to a parser.
MaxParts == 7

RECURSIVE JoinColon(_)
JoinColon(parts) ==
    IF Len(parts) = 0 THEN <<>>
    ELSE IF Len(parts) = 1 THEN parts[1]
    ELSE parts[1] \o <<":">> \o JoinColon(Tail(parts))

\* Texts of one to n parts joined by colons.
ColonTexts(parts, n) == {JoinColon(ps) : ps \in SeqsUpTo(parts, n) \ {<<>>}}

\* ARN::from_str sees a text, held as the one value.
InitArn ==
    /\ matcher = Matcher("ARN::from_str", <<>>)
    /\ m_values \in {Some(<<t>>) :
                        t \in ColonTexts({<<>>, <<"a">>, <<"a", "r", "n">>}, MaxParts)}
    /\ m_targets = <<>>

\* Action::try_from sees a text, held as the one value.
InitAction ==
    /\ matcher = Matcher("Action::try_from", <<>>)
    /\ m_values \in {Some(<<t>>) :
                        t \in ColonTexts({<<>>, <<"s">>, <<"g", "*">>}, MaxParts - 3)}
    /\ m_targets = <<>>

InitMatch ==
    /\ \/ InitQuantifier
       \/ InitArn
       \/ InitAction
       \/ InitNullable
       \/ InitOperator
       \/ InitGlob
       \/ InitResourceConstraint
       \/ InitActionConstraint
    /\ m_result = NoResult
    /\ policy = <<>>
    /\ context = Ctx(EmptyMap, EmptyMap)
    /\ IdleCheck
    /\ IdleProjection
    /\ IdleCondition

\* The value a single-valued or absent key hands to a nullable or operator.
TheValue == IF m_values = None THEN None ELSE Some(m_values[2][1])

TheTarget == m_targets[1]

\* Quantifier::matches(values, &targets)
QuantifierMatches ==
    /\ matcher.kind = "Quantifier"
    /\ m_result' = Quantifier_matches(matcher.is, m_values, m_targets)
    /\ UNCHANGED <<matcher, m_values, m_targets, evalVars, projVars, condVars>>

\* Nullable::matches(value, target)
NullableMatches ==
    /\ matcher.kind = "Nullable"
    /\ m_result' = Nullable_matches(matcher.is, TheValue, TheTarget)
    /\ UNCHANGED <<matcher, m_values, m_targets, evalVars, projVars, condVars>>

\* Operator::matches(value, target)
OperatorMatches ==
    /\ matcher.kind = "Operator"
    /\ m_result' = Operator_matches(matcher.is, TheValue[2], TheTarget)
    /\ UNCHANGED <<matcher, m_values, m_targets, evalVars, projVars, condVars>>

\* ConditionOperator::matches(value, target)
ConditionOperatorMatches ==
    /\ matcher.kind = "ConditionOperator"
    /\ m_result' = ConditionOperator_matches(matcher.is, TheValue[2], TheTarget)
    /\ UNCHANGED <<matcher, m_values, m_targets, evalVars, projVars, condVars>>

\* What a function that returns a plain bool returned.
Bool(b) == <<"bool", b>>

\* glob_matches(glob, target)
GlobMatches ==
    /\ matcher.kind = "glob_matches"
    /\ m_result' = Bool(glob_matches(TheTarget, TheValue[2]))
    /\ UNCHANGED <<matcher, m_values, m_targets, evalVars, projVars, condVars>>

\* ResourceConstraint::matches(&resource)
ResourceConstraintMatches ==
    /\ matcher.kind = "ResourceConstraint"
    /\ m_result' = Bool(ResourceConstraint_matches(matcher.is,
                                                   ARN_from_str(TheValue[2])[2]))
    /\ UNCHANGED <<matcher, m_values, m_targets, evalVars, projVars, condVars>>

\* ActionConstraint::matches(&action)
ActionConstraintMatches ==
    /\ matcher.kind = "ActionConstraint"
    /\ m_result' = Bool(ActionConstraint_matches(matcher.is,
                                                 Action_try_from(TheValue[2])[2]))
    /\ UNCHANGED <<matcher, m_values, m_targets, evalVars, projVars, condVars>>

\* ARN::from_str(value)
ArnFromStr ==
    /\ matcher.kind = "ARN::from_str"
    /\ m_result' = ARN_from_str(TheValue[2])
    /\ UNCHANGED <<matcher, m_values, m_targets, evalVars, projVars, condVars>>

\* Action::try_from(value)
ActionTryFrom ==
    /\ matcher.kind = "Action::try_from"
    /\ m_result' = Action_try_from(TheValue[2])
    /\ UNCHANGED <<matcher, m_values, m_targets, evalVars, projVars, condVars>>

NextMatch ==
    \/ ArnFromStr
    \/ ActionTryFrom
    \/ QuantifierMatches
    \/ NullableMatches
    \/ OperatorMatches
    \/ ConditionOperatorMatches
    \/ GlobMatches
    \/ ResourceConstraintMatches
    \/ ActionConstraintMatches

SpecMatch == InitMatch /\ [][NextMatch]_vars

(***************************************************************************)
(* What the last call asked, and what each statement answers to it.        *)
(***************************************************************************)
PolicyCalled == call.fn \in {"Policy::check_action", "Policy::check"}

StatementCalled == call.fn \in {"Statement::check_action", "Statement::check"}

Asked ==
    Request(call.fn \in {"Policy::check", "Statement::check"},
            call.principal, call.action, call.resource)

Outcome(i) == StmtCheck(policy[i], Asked, context)

Yields(r) == \E i \in 1..Len(policy) : Outcome(i) = Ok(r)

NoStatementErrs == \A i \in 1..Len(policy) : IsOk(Outcome(i))

\* The results of the last call on every reordering of the policy.
Reordered == {PolicyRun(p, Asked, context).result : p \in SeqPermutations(policy)}

\* C1: when no statement of the policy returns an error for the request,
\* Policy::check_action and Policy::check return Deny if some statement
\* yields Deny, otherwise Allow if some statement yields Allow, otherwise
\* Unspecified (so a policy without statements returns Unspecified and a
\* Deny after a matching Allow still denies).
C1_DenyOverridesAllow ==
    (PolicyCalled /\ NoStatementErrs) =>
        result = IF Yields("Deny") THEN Ok("Deny")
                 ELSE IF Yields("Allow") THEN Ok("Allow")
                 ELSE Ok("Unspecified")

C1_DenyAfterAllow ==
    /\ PolicyCalled
    /\ Len(policy) = 2
    /\ Outcome(1) = Ok("Allow")
    /\ Outcome(2) = Ok("Deny")
    /\ result = Ok("Deny")

\* C2 as stated: every reordering of the statements gives the same decision
\* as the policy, or an error in every order.
C2_AnyOrderSameOutcome ==
    PolicyCalled =>
        \A r \in Reordered : r = result \/ (IsErr(r) /\ IsErr(result))

\* C2: reordering the statements never turns one decision into another: the
\* orders that return a decision all return the same one, and when no
\* statement returns an error for the request every order returns it.
C2_AnyOrderSameDecision ==
    PolicyCalled =>
        \A r \in Reordered :
            /\ (IsOk(r) /\ IsOk(result)) => r = result
            /\ NoStatementErrs => r = result

C2_DecisionHereErrorThere ==
    /\ PolicyCalled
    /\ IsOk(result)
    /\ \E r \in Reordered : IsErr(r)

\* Statement i is one the fold evaluates whatever precedes it allows: no
\* earlier statement yields Deny, and none yields Allow unless the statement
\* itself is a Deny statement.
Reached(i) ==
    /\ \A j \in 1..(i - 1) : Outcome(j) # Ok("Deny")
    /\ policy[i].effect = "Deny" \/ \A j \in 1..(i - 1) : Outcome(j) # Ok("Allow")

\* C3 as stated: if any statement returns an error for the request, the
\* policy returns an error.
C3_AnyErrorFailsThePolicy ==
    (PolicyCalled /\ ~NoStatementErrs) => IsErr(result)

\* C3: the policy returns an error exactly when a statement that returns an
\* error is reached by the fold, and the error is that of the first such
\* statement; a failing statement behind a Deny, or a failing Allow statement
\* behind an Allow, is skipped.
C3_ReachedErrorFailsThePolicy ==
    PolicyCalled =>
        /\ IsErr(result) <=> \E i \in 1..Len(policy) : IsErr(Outcome(i)) /\ Reached(i)
        /\ \A i \in 1..Len(policy) :
              (/\ IsErr(Outcome(i))
               /\ Reached(i)
               /\ \A j \in 1..(i - 1) : ~(IsErr(Outcome(j)) /\ Reached(j)))
              => result = Outcome(i)

C3_ErrorAfterAllow ==
    /\ PolicyCalled
    /\ Len(policy) = 2
    /\ Outcome(1) = Ok("Allow")
    /\ IsErr(Outcome(2))
    /\ IsErr(result)

(***************************************************************************)
(* One statement (SpecStmt): the clauses of the statement last checked,    *)
(* read off its constraint lists.                                          *)
(***************************************************************************)
TheStatement == policy[1]

ActionHit ==
    \E i \in 1..Len(TheStatement.actions[2]) :
        ActionConstraint_matches(TheStatement.actions[2][i], call.action)

ActionClauseHolds ==
    IF TheStatement.actions[1] = "NotAction" THEN ~ActionHit ELSE ActionHit

ResourceHit ==
    \E i \in 1..Len(TheStatement.resources[2]) :
        ResourceConstraint_matches(TheStatement.resources[2][i], call.resource)

ResourceClauseHolds ==
    IF TheStatement.resources[1] = "NotResource" THEN ~ResourceHit ELSE ResourceHit

PrincipalHit ==
    \E i \in 1..Len(TheStatement.principals[2]) :
        PrincipalConstraint_matches(TheStatement.principals[2][i], call.principal)

PrincipalGateHolds ==
    CASE TheStatement.principals[1] = "None" -> TRUE
      [] TheStatement.principals[1] = "Principal" -> PrincipalHit
      [] TheStatement.principals[1] = "NotPrincipal" -> ~PrincipalHit

\* The context entry of the requested resource, found by its raw string.
Overlay ==
    IF ARN_raw(call.resource) \in DOMAIN context.resources
    THEN context.resources[ARN_raw(call.resource)]
    ELSE EmptyMap

MergedValue(k) == IF k \in DOMAIN Overlay THEN Overlay[k] ELSE context.global[k]

MergedMap == [k \in DOMAIN context.global \cup DOMAIN Overlay |-> MergedValue(k)]

\* What the statement's condition set says of the merged map; a statement
\* without conditions counts as true.
ConditionsSay ==
    IF TheStatement.conditions = None THEN Ok(TRUE)
    ELSE ConditionSet_matches(TheStatement.conditions[2], MergedMap)

\* C4: Statement::check_action returns the statement's effect exactly when
\* the action clause matches, the resource clause matches and the condition
\* set, if present, is true; Unspecified exactly when one of the three is
\* false; and an error, the condition set's, exactly when action and
\* resource match and the condition set fails.  Action/Resource lists match
\* iff some constraint matches, NotAction/NotResource lists iff none does.
C4_CheckActionDecides ==
    call.fn = "Statement::check_action" =>
        /\ result = Ok(TheStatement.effect) <=>
              (ActionClauseHolds /\ ResourceClauseHolds /\ ConditionsSay = Ok(TRUE))
        /\ result = Ok("Unspecified") <=>
              (~ActionClauseHolds \/ ~ResourceClauseHolds \/ ConditionsSay = Ok(FALSE))
        /\ IsErr(result) <=>
              (ActionClauseHolds /\ ResourceClauseHolds /\ IsErr(ConditionsSay))
        /\ IsErr(result) => result = ConditionsSay

C4_NotActionDenies ==
    /\ call.fn = "Statement::check_action"
    /\ TheStatement.actions[1] = "NotAction"
    /\ TheStatement.resources[1] = "NotResource"
    /\ TheStatement.conditions # None
    /\ result = Ok("Deny")

\* C6: Statement::check returns Unspecified when the principal gate fails (a
\* Principal list with no matching constraint, a NotPrincipal list with a
\* matching one) and otherwise what Statement::check_action returns for the
\* same action, resource and context; without a principal clause it always
\* equals check_action.
C6_CheckGatesOnPrincipal ==
    call.fn = "Statement::check" =>
        result = IF PrincipalGateHolds
                 THEN Statement_check_action(TheStatement, call.action,
                                             call.resource, context)
                 ELSE Ok("Unspecified")

C6_GateFailsOnAllowed ==
    /\ call.fn = "Statement::check"
    /\ TheStatement.principals[1] = "Principal"
    /\ ~PrincipalHit
    /\ Statement_check_action(TheStatement, call.action, call.resource, context)
           = Ok("Allow")
    /\ result = Ok("Unspecified")

\* C8 (the map): the value map a statement's conditions are evaluated
\* against holds every global key and every key of the context entry of the
\* requested resource, the entry's value list replacing the global one;
\* other resources' entries contribute nothing.
C8_MapIsGlobalsUnderOverlay ==
    (StatementCalled /\ IsSome(key_values)) => key_values[2] = MergedMap

\* C8: the map is as above and no check changes the Context.
C8_ValueMap == [](C8_MapIsGlobalsUnderOverlay) /\ [][context' = context]_vars

C8_OverlayReplacesGlobal ==
    /\ StatementCalled
    /\ IsSome(key_values)
    /\ \E k \in DOMAIN Overlay \cap DOMAIN context.global :
          /\ Overlay[k] # context.global[k]
          /\ key_values[2][k] = Overlay[k]
    /\ \E arn \in DOMAIN context.resources : arn # ARN_raw(call.resource)

(***************************************************************************)
(* Projection (SpecProject): the members of the JSON object last           *)
(* projected.                                                              *)
(***************************************************************************)
Has(key) == ~is_null(Index(json, key))

Projected == parsed[1] # "None"

\* The constraints the object's NotAction member lists.
ListedNotActions == parse_actions(Index(json, "NotAction"))[2]

ListedNotActionHit ==
    \E i \in 1..Len(ListedNotActions) :
        ActionConstraint_matches(ListedNotActions[i], call.action)

\* C5: a statement projected from a JSON object with a NotAction list and
\* no Action returns Unspecified from check_action for every action that an
\* entry of the NotAction list matches, and returns its effect only for
\* actions that no entry matches.
C5_NotActionListExcludes ==
    (/\ call.fn = "Statement::check_action"
     /\ IsOk(parsed)
     /\ Has("NotAction")
     /\ ~Has("Action"))
    => /\ ListedNotActionHit => result = Ok("Unspecified")
       /\ result = Ok(parsed[2].effect) => ~ListedNotActionHit

\* C7: projecting a statement fails, producing no Statement, when Action
\* and NotAction are both present or both absent, when Resource and
\* NotResource are both present or both absent, and when Principal and
\* NotPrincipal are both present; with neither Principal nor NotPrincipal
\* (and the rest in order) it succeeds with PrincipalClause::None.
C7_ExclusiveClauses ==
    Projected =>
        /\ (Has("Action") <=> Has("NotAction")) => (IsErr(parsed) /\ policy = <<>>)
        /\ (Has("Resource") <=> Has("NotResource")) => (IsErr(parsed) /\ policy = <<>>)
        /\ (Has("Principal") /\ Has("NotPrincipal")) => (IsErr(parsed) /\ policy = <<>>)
        /\ (/\ ~Has("Principal")
            /\ ~Has("NotPrincipal")
            /\ Has("Action") # Has("NotAction")
            /\ Has("Resource") # Has("NotResource"))
           => (/\ IsOk(parsed)
               /\ parsed[2].principals = <<"None">>
               /\ policy = <<parsed[2]>>)

C7_BothResourcesRejected ==
    /\ Projected
    /\ Has("Action") # Has("NotAction")
    /\ Has("Resource")
    /\ Has("NotResource")
    /\ ~Has("Principal")
    /\ ~Has("NotPrincipal")
    /\ IsErr(parsed)

(***************************************************************************)
(* Conditions.                                                             *)
(***************************************************************************)
\* Some entry of the statement's condition set reads a key the merged map
\* has no value for.
ReadsAbsentKey ==
    \E g \in 1..Len(TheStatement.conditions[2]) :
        \E e \in 1..Len(TheStatement.conditions[2][g].target_map) :
            TheStatement.conditions[2][g].target_map[e].key \notin DOMAIN MergedMap

\* C9: a statement whose action and resource clauses match and whose
\* condition uses an un-suffixed operator on a key the merged context has
\* no value for returns Unspecified, and so does the policy made of it: an
\* absent key is a non-match, not an error.
C9_AbsentKeyIsNoMatch ==
    (/\ call.fn # "none"
     /\ Asked.gate => PrincipalGateHolds
     /\ ActionClauseHolds
     /\ ResourceClauseHolds
     /\ TheStatement.conditions # None
     /\ ReadsAbsentKey)
    => result = Ok("Unspecified")

\* The one entry of a set with a single entry, and the comparisons of the
\* single value of its key with its targets.
TheGroup == cond_set[1]

TheEntry == TheGroup.target_map[1]

Matched == cond_result # NoResult

OneEntryNotNull ==
    /\ Matched
    /\ Len(cond_set) = 1
    /\ Len(TheGroup.target_map) = 1
    /\ TheGroup.op # "Null"

SingleValued ==
    /\ TheEntry.key \in DOMAIN cond_values
    /\ Len(cond_values[TheEntry.key]) = 1

Compared(i) ==
    ConditionOperator_matches(TheGroup.op, cond_values[TheEntry.key][1],
                              TheEntry.targets[i])

\* C10 as stated: Ok(true) when the single value of k matches one of the
\* targets, Ok(false) when it matches none, an error when k is absent.
C10_MatchesAnyTarget ==
    OneEntryNotNull =>
        /\ SingleValued =>
              cond_result = Ok(\E i \in 1..Len(TheEntry.targets) : Compared(i) = Ok(TRUE))
        /\ TheEntry.key \notin DOMAIN cond_values => IsErr(cond_result)

\* C10: with the targets compared in order, the result is Ok(true) when a
\* target matches and every comparison before it returned false, Ok(false)
\* when every comparison returns false, the error of the first comparison
\* that fails when all before it returned false, and the error
\* NotImplemented when k is absent from the value map.
C10_MatchesTargetsInOrder ==
    OneEntryNotNull =>
        /\ SingleValued =>
              \A i \in 1..Len(TheEntry.targets) :
                  (\A j \in 1..(i - 1) : Compared(j) = Ok(FALSE)) =>
                      /\ Compared(i) # Ok(FALSE) => cond_result = Compared(i)
                      /\ (i = Len(TheEntry.targets) /\ Compared(i) = Ok(FALSE))
                            => cond_result = Ok(FALSE)
        /\ (SingleValued /\ Len(TheEntry.targets) = 0) => cond_result = Ok(FALSE)
        /\ TheEntry.key \notin DOMAIN cond_values => cond_result = Err("NotImplemented")

C10_SecondTargetMatches ==
    /\ OneEntryNotNull
    /\ SingleValued
    /\ Len(TheEntry.targets) = 2
    /\ Compared(1) = Ok(FALSE)
    /\ Compared(2) = Ok(TRUE)
    /\ cond_result = Ok(TRUE)

(***************************************************************************)
(* The entries of a condition set in the order the folds visit them, and   *)
(* what each of them yields by itself.                                     *)
(***************************************************************************)
Positions ==
    UNION {{<<g, e>> : e \in 1..Len(cond_set[g].target_map)} : g \in 1..Len(cond_set)}

Before(p, q) == p[1] < q[1] \/ (p[1] = q[1] /\ p[2] < q[2])

OpAt(p) == cond_set[p[1]].op

EntryAt(p) == cond_set[p[1]].target_map[p[2]]

Present(p) == EntryAt(p).key \in DOMAIN cond_values

OneValue(p) == Present(p) /\ Len(cond_values[EntryAt(p).key]) = 1

ComparedAt(p, i) ==
    ConditionOperator_matches(OpAt(p), cond_values[EntryAt(p).key][1],
                              EntryAt(p).targets[i])

\* The comparisons of an entry that decide it: the first one, in target
\* order, that does not return false.
Deciding(p) ==
    {i \in 1..Len(EntryAt(p).targets) :
        /\ ComparedAt(p, i) # Ok(FALSE)
        /\ \A j \in 1..(i - 1) : ComparedAt(p, j) = Ok(FALSE)}

DecidedAt(p, is) == IF is = {} THEN Ok(FALSE) ELSE ComparedAt(p, CHOOSE i \in is : TRUE)

EntryYields(p) ==
    IF OpAt(p) = "Null"
    THEN Ok(EntryAt(p).targets[1] =
            IF Present(p) THEN <<"f", "a", "l", "s", "e">> ELSE <<"t", "r", "u", "e">>)
    ELSE IF ~Present(p) THEN Err("NotImplemented")
    ELSE IF ~OneValue(p) THEN Err("TooManyValues")
    ELSE DecidedAt(p, Deciding(p))

NullsHaveTarget ==
    \A p \in Positions : OpAt(p) = "Null" => Len(EntryAt(p).targets) >= 1

\* Every key of the set holds exactly one value and no operator is Null:
\* each entry has "the context value of its key" to compare.
AllCompareOneValue == \A p \in Positions : OpAt(p) # "Null" /\ OneValue(p)

Applied(kind) == matcher.kind = kind /\ m_result # NoResult

QuantifierIs(tag) == Applied("Quantifier") /\ matcher.is[1] = tag

KeyAbsent == m_values = None

TheValues == m_values[2]

Pair(i, j) == Operator_matches(matcher.is[2], TheValues[i], m_targets[j])

\* Value i matches at least one target under op.
ValueMatches(i) == \E j \in 1..Len(m_targets) : Pair(i, j) = Ok(TRUE)

FirstNotFalse(i) ==
    {j \in 1..Len(m_targets) :
        /\ Pair(i, j) # Ok(FALSE)
        /\ \A k \in 1..(j - 1) : Pair(i, k) = Ok(FALSE)}

PairOrFalse(i, js) == IF js = {} THEN Ok(FALSE) ELSE Pair(i, CHOOSE j \in js : TRUE)

\* The first comparison of value i that is not false: a match or an error.
ValueYields(i) == PairOrFalse(i, FirstNotFalse(i))

\* C12 as stated: true iff the key is absent or every value matches some
\* target, and false when some value matches no target.
C12_TrueIffEveryValueMatches ==
    QuantifierIs("ForAllValues") =>
        /\ (m_result = Ok(TRUE)) <=>
              (KeyAbsent \/ \A i \in 1..Len(TheValues) : ValueMatches(i))
        /\ (~KeyAbsent /\ \E i \in 1..Len(TheValues) : ~ValueMatches(i))
              => m_result = Ok(FALSE)

\* C12: ForAllValues(op) is true for an absent key and an empty value list;
\* otherwise the values are taken in order and each is compared with the
\* targets in order up to its first match: the result is true when every
\* value reaches a match, and what the first value that does not reach one
\* yields, false when all its comparisons are false and the error of its
\* first failing comparison otherwise.
C12_EveryValueInOrder ==
    QuantifierIs("ForAllValues") =>
        /\ KeyAbsent => m_result = Ok(TRUE)
        /\ ~KeyAbsent =>
              /\ (\A i \in 1..Len(TheValues) : ValueYields(i) = Ok(TRUE))
                    => m_result = Ok(TRUE)
              /\ \A i \in 1..Len(TheValues) :
                    (/\ ValueYields(i) # Ok(TRUE)
                     /\ \A h \in 1..(i - 1) : ValueYields(h) = Ok(TRUE))
                    => m_result = ValueYields(i)

\* Two different values each find their own target.
C12_EachValueFindsItsTarget ==
    /\ QuantifierIs("ForAllValues")
    /\ ~KeyAbsent
    /\ Len(TheValues) = 2
    /\ Len(m_targets) = 2
    /\ Pair(1, 1) = Ok(TRUE)
    /\ Pair(2, 1) = Ok(FALSE)
    /\ Pair(2, 2) = Ok(TRUE)
    /\ m_result = Ok(TRUE)

\* C13 as stated: true iff some value matches some target, and false for an
\* absent key, an empty value list and an empty target list.
C13_TrueIffSomeValueMatches ==
    QuantifierIs("ForAnyValue") =>
        /\ (m_result = Ok(TRUE)) <=>
              (~KeyAbsent /\ \E i \in 1..Len(TheValues) : ValueMatches(i))
        /\ (KeyAbsent \/ Len(m_targets) = 0) => m_result = Ok(FALSE)
        /\ (~KeyAbsent /\ Len(TheValues) = 0) => m_result = Ok(FALSE)

\* C13: ForAnyValue(op) is false for an absent key, an empty value list and
\* an empty target list; otherwise the values are taken in order and each is
\* compared with the targets in order: the result is the first comparison
\* that is not false, a match (true) or the comparator's error, and false
\* when every comparison is false.
C13_SomeValueInOrder ==
    QuantifierIs("ForAnyValue") =>
        /\ KeyAbsent => m_result = Ok(FALSE)
        /\ ~KeyAbsent =>
              /\ (\A i \in 1..Len(TheValues) : ValueYields(i) = Ok(FALSE))
                    => m_result = Ok(FALSE)
              /\ \A i \in 1..Len(TheValues) :
                    (/\ ValueYields(i) # Ok(FALSE)
                     /\ \A h \in 1..(i - 1) : ValueYields(h) = Ok(FALSE))
                    => m_result = ValueYields(i)

\* The second value is the one that matches, on the second target.
C13_SecondValueMatches ==
    /\ QuantifierIs("ForAnyValue")
    /\ ~KeyAbsent
    /\ Len(TheValues) = 2
    /\ Len(m_targets) = 2
    /\ ValueYields(1) = Ok(FALSE)
    /\ Pair(2, 1) = Ok(FALSE)
    /\ Pair(2, 2) = Ok(TRUE)
    /\ m_result = Ok(TRUE)

\* C14: Quantifier::Null returns an error unless there is exactly one
\* target; with one target it returns true iff the key's absence equals
\* "the target is true": target "true" matches only an absent key, target
\* "false" only a present one.
C14_NullTakesOneTarget ==
    QuantifierIs("Null") =>
        /\ Len(m_targets) # 1 => IsErr(m_result)
        /\ Len(m_targets) = 1 =>
              /\ m_result = Ok(KeyAbsent = (TheTarget = <<"t", "r", "u", "e">>))
              /\ TheTarget = <<"t", "r", "u", "e">>
                    => (m_result = Ok(TRUE) <=> KeyAbsent)
              /\ TheTarget = <<"f", "a", "l", "s", "e">>
                    => (m_result = Ok(TRUE) <=> ~KeyAbsent)

\* Target "false" matches a key that is present.
C14_FalseMatchesPresentKey ==
    /\ QuantifierIs("Null")
    /\ ~KeyAbsent
    /\ m_targets = <<<<"f", "a", "l", "s", "e">>>>
    /\ m_result = Ok(TRUE)

(***************************************************************************)
(* A nullable applied to the value of a key and one target.                *)
(***************************************************************************)
NullableIs(tag) == Applied("Nullable") /\ matcher.is[1] = tag

\* op(value, target) for the value that is present.
OpOnValue == Operator_matches(matcher.is[2], TheValue[2], TheTarget)

\* C15: Expect(op) returns false for an absent value and op(value, target)
\* otherwise; IfExists(op) returns true for an absent value and
\* op(value, target) otherwise; IsNull returns "the value is absent" for
\* target "true", "the value is present" for target "false" and an error
\* for any other target.
C15_NullableModes ==
    /\ NullableIs("Expect") =>
          m_result = IF KeyAbsent THEN Ok(FALSE) ELSE OpOnValue
    /\ NullableIs("IfExists") =>
          m_result = IF KeyAbsent THEN Ok(TRUE) ELSE OpOnValue
    /\ NullableIs("IsNull") =>
          /\ TheTarget = <<"t", "r", "u", "e">> => m_result = Ok(KeyAbsent)
          /\ TheTarget = <<"f", "a", "l", "s", "e">> => m_result = Ok(~KeyAbsent)
          /\ TheTarget \notin {<<"t", "r", "u", "e">>, <<"f", "a", "l", "s", "e">>}
                => IsErr(m_result)

\* IfExists matches a value that is absent.
C15_IfExistsMatchesAbsent ==
    /\ NullableIs("IfExists")
    /\ KeyAbsent
    /\ m_result = Ok(TRUE)

\* C16: for a key that is absent or single-valued and every target,
\* ForAnyValue(op) returns what IfExists(op) returns, a match when the key
\* is absent.
C16_ForAnyValueIsIfExists ==
    (/\ QuantifierIs("ForAnyValue")
     /\ KeyAbsent \/ Len(TheValues) = 1
     /\ Len(m_targets) = 1)
    => m_result = Nullable_matches(IfExists(matcher.is[2]), TheValue, TheTarget)

\* C17: for every key presence and every single target, Quantifier::Null
\* and Nullable::IsNull return the same boolean, or both return an error;
\* they return an error for a target that is neither "true" nor "false".
C17_NullChecksAgree ==
    (/\ QuantifierIs("Null")
     /\ KeyAbsent \/ Len(TheValues) = 1
     /\ Len(m_targets) = 1)
    => /\ IsOk(Nullable_matches(IsNull, TheValue, TheTarget))
             => m_result = Nullable_matches(IsNull, TheValue, TheTarget)
       /\ IsErr(Nullable_matches(IsNull, TheValue, TheTarget)) => IsErr(m_result)
       /\ TheTarget \notin {<<"t", "r", "u", "e">>, <<"f", "a", "l", "s", "e">>}
             => IsErr(m_result)

\* C18: an entry of a non-Null operator on a key that holds several values
\* matches iff some value matches some target, and does not fail with
\* TooManyValues.
C18_SeveralValuesAnyMatches ==
    (/\ OneEntryNotNull
     /\ TheEntry.key \in DOMAIN cond_values
     /\ Len(cond_values[TheEntry.key]) > 1)
    => /\ cond_result # Err("TooManyValues")
       /\ (cond_result = Ok(TRUE)) <=>
             \E v \in 1..Len(cond_values[TheEntry.key]),
                i \in 1..Len(TheEntry.targets) :
                 ConditionOperator_matches(TheGroup.op, cond_values[TheEntry.key][v],
                                           TheEntry.targets[i]) = Ok(TRUE)

(***************************************************************************)
(* An operator and its Not sibling on the same value and target.           *)
(***************************************************************************)
NotSibling ==
    [op \in {"StringEquals", "StringEqualsIgnoreCase", "StringLike", "NumericEquals",
             "DateEquals", "IpAddress", "ArnEquals", "ArnLike"} |->
        CASE op = "StringEquals" -> "StringNotEquals"
          [] op = "StringEqualsIgnoreCase" -> "StringNotEqualsIgnoreCase"
          [] op = "StringLike" -> "StringNotLike"
          [] op = "NumericEquals" -> "NumericNotEquals"
          [] op = "DateEquals" -> "DateNotEquals"
          [] op = "IpAddress" -> "NotIpAddress"
          [] op = "ArnEquals" -> "ArnNotEquals"
          [] op = "ArnLike" -> "ArnNotLike"]

OperatorApplied ==
    /\ Applied("Operator") \/ Applied("ConditionOperator")
    /\ matcher.is \in DOMAIN NotSibling

\* What the Not sibling of the applied operator returns on the same input.
SiblingResult ==
    IF matcher.kind = "Operator"
    THEN Operator_matches(NotSibling[matcher.is], TheValue[2], TheTarget)
    ELSE ConditionOperator_matches(NotSibling[matcher.is], TheValue[2], TheTarget)

\* C19: an operator that has a Not sibling raises an error exactly when the
\* sibling does, and when neither raises one the sibling returns the
\* negation of what the operator returns.
C19_NotSiblingNegates ==
    OperatorApplied =>
        /\ IsErr(m_result) <=> IsErr(SiblingResult)
        /\ IsOk(m_result) => SiblingResult = Ok(~m_result[2])

\* A value that is not an address is an error for IpAddress and NotIpAddress.
C19_MismatchIsAnErrorForBoth ==
    /\ OperatorApplied
    /\ matcher.is = "IpAddress"
    /\ m_result = Err("TypeMismatch")
    /\ SiblingResult = Err("TypeMismatch")

(***************************************************************************)
(* The glob language: '?' is one character, '*' any run of characters,     *)
(* every other character itself, and the whole text is matched.            *)
(***************************************************************************)
RECURSIVE GlobAccepts(_, _)
GlobAccepts(glob, text) ==
    IF Len(glob) = 0 THEN Len(text) = 0
    ELSE CASE Head(glob) = "?" ->
                 Len(text) > 0 /\ GlobAccepts(Tail(glob), Tail(text))
           [] Head(glob) = "*" ->
                 \/ GlobAccepts(Tail(glob), text)
                 \/ Len(text) > 0 /\ GlobAccepts(glob, Tail(text))
           [] OTHER ->
                 /\ Len(text) > 0
                 /\ Head(text) = Head(glob)
                 /\ GlobAccepts(Tail(glob), Tail(text))

TheGlob == m_targets[1]

TheText == m_values[2][1]

\* C20: glob_matches(pattern, target) is the full-string match of the glob
\* language; so "*" matches every string and a pattern without '?' or '*'
\* matches iff it equals the target.
C20_GlobIsFullMatch ==
    Applied("glob_matches") =>
        /\ m_result = Bool(GlobAccepts(TheGlob, TheText))
        /\ TheGlob = <<"*">> => m_result = Bool(TRUE)
        /\ ~(Contains(TheGlob, "?") \/ Contains(TheGlob, "*"))
              => m_result = Bool(TheGlob = TheText)

(***************************************************************************)
(* A constraint applied to a subject.                                      *)
(***************************************************************************)
TheConstraint == matcher.is

TheSubjectArn == ARN_from_str(TheValue[2])[2]

TheSubjectAction == Action_try_from(TheValue[2])[2]

\* C21: a Pattern constraint matches as glob_matches does, a resource on the
\* raw ARN strings and an action on the service parts and on the action
\* parts; the Any variant matches everything.
C21_ConstraintsUseGlob ==
    /\ Applied("ResourceConstraint") =>
          m_result = Bool(IF TheConstraint = MatchAny THEN TRUE
                          ELSE glob_matches(ARN_raw(TheConstraint[2]),
                                            ARN_raw(TheSubjectArn)))
    /\ Applied("ActionConstraint") =>
          m_result = Bool(IF TheConstraint = MatchAny THEN TRUE
                          ELSE /\ glob_matches(Action_service(TheConstraint[2]),
                                               Action_service(TheSubjectAction))
                               /\ glob_matches(Action_action(TheConstraint[2]),
                                               Action_action(TheSubjectAction)))

(***************************************************************************)
(* A text handed to a parser, and its colons.                              *)
(***************************************************************************)
Colons(text) == Len(IndicesFrom(text, ":", 1))

NoColon(text) == Colons(text) = 0

\* The text up to and including its n-th colon.
UpToColon(text, n) == SubSeq(text, 1, IndicesFrom(text, ":", 1)[n])

TheArn == m_result[2]

\* C22: a text parses iff it starts with "arn:" and has five colons or
\* more, with MissingPrefix when the prefix is missing and InvalidFormat
\* otherwise; the ARN keeps the text as its raw string, and the text is its
\* first two colons' worth of prefix followed by service, region and
\* account, none of which contains a colon, and the resource, each
\* separated by one colon.
C22_ArnPartition ==
    Applied("ARN::from_str") =>
        /\ IsOk(m_result) <=>
              (starts_with(TheText, <<"a", "r", "n", ":">>) /\ Colons(TheText) >= 5)
        /\ ~starts_with(TheText, <<"a", "r", "n", ":">>) => m_result = Err("MissingPrefix")
        /\ (starts_with(TheText, <<"a", "r", "n", ":">>) /\ Colons(TheText) < 5)
              => m_result = Err("InvalidFormat")
        /\ IsOk(m_result) =>
              /\ ARN_raw(TheArn) = TheText
              /\ NoColon(ARN_service(TheArn))
              /\ NoColon(ARN_region(TheArn))
              /\ NoColon(ARN_account(TheArn))
              /\ TheText = UpToColon(TheText, 2) \o ARN_service(TheArn) \o <<":">>
                             \o ARN_region(TheArn) \o <<":">>
                             \o ARN_account(TheArn) \o <<":">>
                             \o ARN_resource(TheArn)

\* An ARN whose resource holds a colon.
C22_ResourceHoldsColon ==
    /\ Applied("ARN::from_str")
    /\ IsOk(m_result)
    /\ ARN_service(TheArn) = <<"a">>
    /\ ARN_region(TheArn) = <<>>
    /\ ARN_resource(TheArn) = <<"a", ":", "a", "r", "n">>

TheAction == m_result[2]

\* C23: a parsed action holds exactly one colon, service() is the text
\* before it and action() the text after it; a text without a colon is
\* rejected with InvalidFormat.
C23_ActionHasOneColon ==
    Applied("Action::try_from") =>
        /\ NoColon(TheText) => m_result = Err("InvalidFormat")
        /\ IsOk(m_result) =>
              /\ Colons(TheText) = 1
              /\ TheAction.value = TheText
              /\ TheText = Action_service(TheAction) \o <<":">> \o Action_action(TheAction)
              /\ NoColon(Action_service(TheAction))
              /\ NoColon(Action_action(TheAction))

\* The checks the last statement call performs: check_action does not look
\* at the principal.
Checks ==
    IF call.fn = "Statement::check"
    THEN <<"principal", "action", "resource", "condition">>
    ELSE <<"action", "resource", "condition">>

CheckSays(name) ==
    CASE name = "principal" -> Ok(PrincipalGateHolds)
      [] name = "action" -> Ok(ActionClauseHolds)
      [] name = "resource" -> Ok(ResourceClauseHolds)
      [] name = "condition" -> ConditionsSay

\* The outcome of performing the checks in the given order: the first check
\* that is not true decides, false giving Unspecified and an error itself;
\* when all are true the statement's effect is the outcome.
RECURSIVE DecideFrom(_, _)
DecideFrom(order, i) ==
    IF i > Len(order) THEN Ok(TheStatement.effect)
    ELSE IF IsErr(CheckSays(order[i])) THEN CheckSays(order[i])
    ELSE IF ~CheckSays(order[i])[2] THEN Ok("Unspecified")
    ELSE DecideFrom(order, i + 1)

AnyOrderOutcomes == {DecideFrom(order, 1) : order \in SeqPermutations(Checks)}

GatesHold ==
    /\ call.fn = "Statement::check" => PrincipalGateHolds
    /\ ActionClauseHolds
    /\ ResourceClauseHolds

\* C24 as stated: performing the principal, action, resource and condition
\* checks of a statement in any order gives the outcome the call returned.
C24_CheckOrderUnobservable ==
    StatementCalled => AnyOrderOutcomes = {result}

\* C24, amended: while the condition check raises no error, performing the
\* checks in any order gives the outcome the call returned; when it raises
\* one, the fixed order decides: the call returns the error if the principal
\* gate, the action clause and the resource clause hold, and Unspecified
\* otherwise.
C24_CheckOrderUnobservableUnlessError ==
    StatementCalled =>
        /\ IsOk(ConditionsSay) => AnyOrderOutcomes = {result}
        /\ IsErr(ConditionsSay) =>
              result = IF GatesHold THEN ConditionsSay ELSE Ok("Unspecified")

\* The condition set compares a text with a number while the action clause
\* does not match: the call returns Unspecified, the mismatch is not seen.
C24_MismatchBehindFailedAction ==
    /\ StatementCalled
    /\ ConditionsSay = Err("TypeMismatch")
    /\ ~ActionClauseHolds
    /\ result = Ok("Unspecified")

\* The accumulator of the last policy call after its first i statements.
AccAfter(i) == PolicyRun(SubSeq(policy, 1, i), Asked, context).result

Evaluated(i) == \E n \in 1..Len(evaluated) : evaluated[n] = i

\* What a Deny-effect statement makes of an accumulated Allow.
AllowThen(outcome) ==
    IF outcome = Ok("Deny") THEN Ok("Deny")
    ELSE IF IsErr(outcome) THEN outcome
    ELSE Ok("Allow")

\* The protocol's step at statement i.
ProtocolStep(i) ==
    CASE AccAfter(i - 1) = Ok("Unspecified") ->
            Evaluated(i) /\ AccAfter(i) = Outcome(i)
      [] AccAfter(i - 1) = Ok("Allow") /\ policy[i].effect = "Deny" ->
            Evaluated(i) /\ AccAfter(i) = AllowThen(Outcome(i))
      [] AccAfter(i - 1) = Ok("Allow") /\ policy[i].effect # "Deny" ->
            ~Evaluated(i) /\ AccAfter(i) = Ok("Allow")
      [] OTHER ->
            /\ ~Evaluated(i)
            /\ \A j \in i..Len(policy) : ~Evaluated(j) /\ AccAfter(j) = AccAfter(i - 1)

\* C25: the fold visits the statements in list order; while the accumulator
\* is Unspecified every statement is evaluated and its outcome becomes the
\* accumulator; once it is Allow only Deny-effect statements are evaluated (a
\* Deny outcome switches to Deny, an error to the error, anything else keeps
\* Allow) and Allow-effect statements are skipped; once it is Deny or an
\* error no later statement is evaluated and the result stays as it is.
C25_FoldProtocol ==
    PolicyCalled =>
        /\ AccAfter(0) = Ok("Unspecified")
        /\ \A i \in 1..Len(policy) : ProtocolStep(i)
        /\ \A n \in 1..(Len(evaluated) - 1) : evaluated[n] < evaluated[n + 1]
        /\ \A n \in 1..Len(evaluated) : evaluated[n] \in 1..Len(policy)
        /\ result = AccAfter(Len(policy))

\* An Allow-effect statement skipped behind an Allow.
C25_AllowSkipped ==
    /\ PolicyCalled
    /\ Len(policy) = 2
    /\ policy[2].effect = "Allow"
    /\ IsErr(Outcome(2))
    /\ evaluated = <<1>>
    /\ result = Ok("Allow")

\* The orders a HashMap may hand the entries of a group out in.
EntryOrders(group) ==
    {[op |-> group.op, target_map |-> tm] : tm \in SeqPermutations(group.target_map)}

RECURSIVE EachReordered(_)
EachReordered(groups) ==
    IF groups = <<>> THEN {<<>>}
    ELSE {<<g>> \o rest : g \in EntryOrders(Head(groups)),
                          rest \in EachReordered(Tail(groups))}

\* The condition set in every order its groups and their keys can be
\* visited in.
VisitOrders == UNION {EachReordered(groups) : groups \in SeqPermutations(cond_set)}

\* C26: ConditionSet::matches returns the same outcome whatever order the
\* operator groups and the keys inside a group are visited in, also when one
\* entry is false and another raises an error (here: every key holds exactly
\* one value, so that the only errors are those of the comparisons).
C26_VisitOrderUnobservable ==
    (Matched /\ AllCompareOneValue) =>
        \A c \in VisitOrders : ConditionSet_matches(c, cond_values) = cond_result

\* C27: whenever Policy::check_action or Policy::check returns Allow, every
\* statement with effect Deny has been evaluated for the request and none of
\* them yields Deny, in every order of the statements and whichever
\* Allow-effect statements were skipped.
C27_AllowMasksNoDeny ==
    (PolicyCalled /\ result = Ok("Allow")) =>
        \A i \in 1..Len(policy) :
            policy[i].effect = "Deny" => Evaluated(i) /\ Outcome(i) # Ok("Deny")

\* A Deny-effect statement evaluated behind the statement that allowed.
C27_DenyStatementAfterAllow ==
    /\ PolicyCalled
    /\ result = Ok("Allow")
    /\ Len(policy) = 2
    /\ policy[1].effect = "Allow"
    /\ policy[2].effect = "Deny"
    /\ evaluated = <<1, 2>>

\* Statement i of the policy has its action clause, its resource clause and
\* its conditions matching the request of the last call.
ActionHolds(i) ==
    (policy[i].actions[1] = "NotAction") #
        (\E n \in 1..Len(policy[i].actions[2]) :
            ActionConstraint_matches(policy[i].actions[2][n], call.action))

ResourceHolds(i) ==
    (policy[i].resources[1] = "NotResource") #
        (\E n \in 1..Len(policy[i].resources[2]) :
            ResourceConstraint_matches(policy[i].resources[2][n], call.resource))

ConditionsHold(i) ==
    \/ policy[i].conditions = None
    \/ ConditionSet_matches(policy[i].conditions[2], MergedMap) = Ok(TRUE)

WitnessStatement(effect) ==
    \E i \in 1..Len(policy) :
        /\ policy[i].effect = effect
        /\ ActionHolds(i)
        /\ ResourceHolds(i)
        /\ ConditionsHold(i)

\* C28: Policy::check_action returns Allow only if some statement with
\* effect Allow has its action clause, resource clause and conditions all
\* matching the request, and Deny only if some statement with effect Deny so
\* matches; a policy without Allow statements never returns Allow and one
\* without Deny statements never returns Deny.
C28_DecisionHasWitness ==
    call.fn = "Policy::check_action" =>
        /\ result = Ok("Allow") => WitnessStatement("Allow")
        /\ result = Ok("Deny") => WitnessStatement("Deny")
        /\ (\A i \in 1..Len(policy) : policy[i].effect # "Allow") => result # Ok("Allow")
        /\ (\A i \in 1..Len(policy) : policy[i].effect # "Deny") => result # Ok("Deny")

\* A Deny decided by the second statement, on its conditions, after an
\* Allow-effect statement whose conditions are false.
C28_DenyBehindFalseConditions ==
    /\ call.fn = "Policy::check_action"
    /\ result = Ok("Deny")
    /\ Len(policy) = 2
    /\ policy[1].effect = "Allow"
    /\ ActionHolds(1) /\ ResourceHolds(1) /\ ~ConditionsHold(1)
    /\ policy[2].conditions # None

QuantifierCompares == QuantifierIs("ForAllValues") \/ QuantifierIs("ForAnyValue")

ValueOrders ==
    IF KeyAbsent THEN {None} ELSE {Some(v) : v \in SeqPermutations(TheValues)}

\* What the quantifier returns on every order of the values and the targets.
OrderOutcomes ==
    {Quantifier_matches(matcher.is, v, t) :
        v \in ValueOrders, t \in SeqPermutations(m_targets)}

NoPairErrs ==
    KeyAbsent \/ \A i \in 1..Len(TheValues), j \in 1..Len(m_targets) : IsOk(Pair(i, j))

\* C29 as stated: permuting the context values or the targets of
\* ForAllValues(op) and ForAnyValue(op) yields the same boolean, or an error
\* in every order, also when some value/target pair raises an error.
C29_OrderOfValuesUnobservable ==
    QuantifierCompares => OrderOutcomes = {m_result}

\* C29, amended: permuting either list never turns one boolean into the
\* other, and yields the same boolean in every order when no value/target
\* pair raises an error; when some pair raises one, an order may yield the
\* error where another yields the boolean.
C29_OrderKeepsTheBoolean ==
    QuantifierCompares =>
        /\ \A a, b \in OrderOutcomes : (IsOk(a) /\ IsOk(b)) => a = b
        /\ NoPairErrs => OrderOutcomes = {m_result}

\* The number 1 compared with the targets "a" and "1": the mismatch of the
\* first target is returned, while the targets in the other order match.
C29_MismatchBeforeMatch ==
    /\ QuantifierIs("ForAnyValue")
    /\ matcher.is[2] = "NumericEquals"
    /\ m_values = Some(<<<<"1">>>>)
    /\ m_targets = <<<<"a">>, <<"1">>>>
    /\ m_result = Err("TypeMismatch")
    /\ Ok(TRUE) \in OrderOutcomes

\* The Condition object a condition set is projected from: one member per
\* operator group, holding one array of strings per key.
AsJsonTargets(targets) == JArr([j \in 1..Len(targets) |-> JStr(targets[j])])

AsJsonGroup(group) ==
    <<group.op,
      JObj([e \in 1..Len(group.target_map) |->
               <<group.target_map[e].key, AsJsonTargets(group.target_map[e].targets)>>])>>

AsJson(conditions) == JObj([g \in 1..Len(conditions) |-> AsJsonGroup(conditions[g])])

\* The condition set is one the JSON projection hands out.
Accepted == ConditionSet_try_from(AsJson(cond_set)) = Ok(cond_set)

OneEntry == Len(cond_set) = 1 /\ Len(TheGroup.target_map) = 1

\* C30: ConditionSet::matches returns true, false or an error for every
\* condition set the JSON projection accepts and every value map; a Null
\* entry whose target array is empty or has several elements, and a non-Null
\* entry whose key has no value list, an empty one or one of several values,
\* produce an error and never an out-of-range access.
C30_MatchesAlwaysReturns ==
    (Matched /\ Accepted) =>
        /\ cond_result # Panic
        /\ IsOk(cond_result) \/ IsErr(cond_result)
        /\ (OneEntry /\ TheGroup.op = "Null" /\ Len(TheEntry.targets) # 1)
              => IsErr(cond_result)
        /\ (OneEntry /\ TheGroup.op # "Null" /\ ~SingleValued)
              => IsErr(cond_result)

=============================================================================
